---------------------------- MODULE Spec2Model ----------------------------
(***************************************************************************)
(* Model of the PDF text-structure extraction pipeline of                  *)
(* pdf_to_ppt_frontend/src/utils/pdf.js (pdfToText and its helpers).       *)
(*                                                                         *)
(* Numbers.  JavaScript numbers are modelled as exact rationals <<n, d>>   *)
(* (d > 0, lowest terms), so that medians, averages and the fractional     *)
(* thresholds of the code (0.28, 1.6, 0.65, 0.9, 1.35, 0.12, 0.08 ...) are *)
(* computed as the code computes them and not rounded by the model.        *)
(* Binary floating-point representation error is not modelled.             *)
(*                                                                         *)
(* Text.  A string is a sequence of one-character tokens; the tokens       *)
(* "U2022", "U2023", "U25E6", "U2013", "U2014" stand for the single        *)
(* characters with these code points, "TAB" for a tab character and "NL"   *)
(* for a newline.                                                          *)
(***************************************************************************)
EXTENDS Integers, Sequences, FiniteSets, TLC

(***************************************************************************)
(* Exact rational arithmetic                                               *)
(***************************************************************************)
IAbs(i) == IF i < 0 THEN -i ELSE i

RECURSIVE Gcd(_, _)
Gcd(a, b) == IF b = 0 THEN a ELSE Gcd(b, a % b)

Frac(n, d) ==
    LET s == IF d < 0 THEN -1 ELSE 1
        g == Gcd(IAbs(n), IAbs(d))
    IN  <<(s * n) \div g, (s * d) \div g>>

R(i) == <<i, 1>>
Zero == R(0)

RAdd(a, b) == Frac(a[1] * b[2] + b[1] * a[2], a[2] * b[2])
RSub(a, b) == Frac(a[1] * b[2] - b[1] * a[2], a[2] * b[2])
RMul(a, b) == Frac(a[1] * b[1], a[2] * b[2])
RDiv(a, b) == Frac(a[1] * b[2], a[2] * b[1])
RLt(a, b) == a[1] * b[2] < b[1] * a[2]
RLe(a, b) == a[1] * b[2] <= b[1] * a[2]
RGt(a, b) == RLt(b, a)
RGe(a, b) == RLe(b, a)
RAbs(a) == <<IAbs(a[1]), a[2]>>
RMax(a, b) == IF RLt(a, b) THEN b ELSE a
RMin(a, b) == IF RLt(b, a) THEN b ELSE a
RFloor(a) == a[1] \div a[2]

\* a || b on numbers: 0 is falsy
OrElse(a, b) == IF a # Zero THEN a ELSE b

RECURSIVE RSum(_)
RSum(s) == IF s = <<>> THEN Zero ELSE RAdd(Head(s), RSum(Tail(s)))

RECURSIVE RMaxOf(_)
RMaxOf(s) == IF Len(s) = 1 THEN s[1] ELSE RMax(s[1], RMaxOf(Tail(s)))

RECURSIVE RMinOf(_)
RMinOf(s) == IF Len(s) = 1 THEN s[1] ELSE RMin(s[1], RMinOf(Tail(s)))

\* Array.prototype.map / filter on sequences
Map(s, F(_)) == [i \in 1..Len(s) |-> F(s[i])]

Filter(s, P(_)) == SelectSeq(s, P)

NonZero(s) == Filter(s, LAMBDA v : v # Zero)

RECURSIVE Flatten(_)
Flatten(ss) == IF ss = <<>> THEN <<>> ELSE Head(ss) \o Flatten(Tail(ss))



(***************************************************************************)
(* Array.prototype.sort(comparator).  Less(a, b) is "comparator(a, b) < 0".*)
(* The sort is stable.  When the comparator orders the elements of the     *)
(* array consistently there is exactly one outcome; when it does not (a    *)
(* banded comparison is not transitive) ECMAScript leaves the order        *)
(* implementation-defined, and every permutation is a possible outcome.    *)
(***************************************************************************)
StableRank(s, Less(_, _), i) ==
    1 + Cardinality({j \in (1..Len(s)) \ {i} :
                        Less(s[j], s[i]) \/ (~Less(s[i], s[j]) /\ j < i)})

\* the position each element takes when the comparator is consistent
Ranks(s, Less(_, _)) == [i \in 1..Len(s) |-> StableRank(s, Less, i)]

ByRanks(s, ranks) == [k \in 1..Len(s) |-> s[CHOOSE i \in 1..Len(s) : ranks[i] = k]]

StableSorted(s, Less(_, _)) == ByRanks(s, Ranks(s, Less))

AllOrders(s) ==
    LET n == Len(s)
        P == {p \in [1..n -> 1..n] : \A i, j \in 1..n : i # j => p[i] # p[j]}
    IN  {[k \in 1..n |-> s[p[k]]] : p \in P}

OutcomesByRanks(s, ranks) ==
    IF \A i, j \in 1..Len(s) : i # j => ranks[i] # ranks[j]
    THEN {ByRanks(s, ranks)}
    ELSE AllOrders(s)

SortOutcomes(s, Less(_, _)) == OutcomesByRanks(s, Ranks(s, Less))

\* [...arr].sort((a, b) => a - b)
SortNums(s) == StableSorted(s, RLt)

MedianOfSorted(n) ==
    IF Len(n) % 2 = 1 THEN n[(Len(n) \div 2) + 1]
    ELSE RDiv(RAdd(n[Len(n) \div 2], n[(Len(n) \div 2) + 1]), R(2))

median(arr) == IF Len(arr) = 0 THEN Zero ELSE MedianOfSorted(SortNums(arr))

average(arr) ==
    IF Len(arr) = 0 THEN Zero ELSE RDiv(RSum(arr), R(Len(arr)))

\* Math.round(v * 10^digits) / 10^digits with digits = 2; Math.round rounds
\* half up.  (The Number.EPSILON nudge of the code is below the resolution
\* of every value the model uses.)
round(n) == Frac(RFloor(RAdd(RMul(n, R(100)), Frac(1, 2))), 100)

(***************************************************************************)
(* Text: character classes of the regular expressions used by the code     *)
(***************************************************************************)
IsSpace(c) == c \in {" ", "TAB", "NL"}
IsDigit(c) == c \in {"0", "1", "2", "3", "4", "5", "6", "7", "8", "9"}
IsAlpha(c) ==
    c \in {
           "A", "B", "C", "D", "E", "F", "G", "H", "I", "J", "K", "L",
           "M", "N", "O", "P", "Q", "R", "S", "T", "U", "V", "W", "X",
           "Y", "Z", "a", "b", "c", "d", "e", "f", "g", "h", "i", "j",
           "k", "l", "m", "n", "o", "p", "q", "r", "s", "t", "u", "v",
           "w", "x", "y", "z"}
IsBulletGlyph(c) == c \in {"U2022", "U2023", "U25E6", "U2013", "U2014", "-", "*"}

\* String.prototype.trim
RECURSIVE TrimLeft(_)
TrimLeft(t) == IF t # <<>> /\ IsSpace(Head(t)) THEN TrimLeft(Tail(t)) ELSE t

RECURSIVE TrimRight(_)
TrimRight(t) ==
    IF t # <<>> /\ IsSpace(t[Len(t)]) THEN TrimRight(SubSeq(t, 1, Len(t) - 1)) ELSE t

Trim(t) == TrimRight(TrimLeft(t))

\* the characters of t at the indices that satisfy Keep, in order
Indices(t) == [i \in 1..Len(t) |-> i]
KeepAt(t, idx) == [k \in 1..Len(idx) |-> t[idx[k]]]

\* replace(/\s+/g, ' '): every maximal run of whitespace becomes one space
CollapseSpaces(t) ==
    Map(KeepAt(t, SelectSeq(Indices(t),
                            LAMBDA i : ~IsSpace(t[i]) \/ i = 1 \/ ~IsSpace(t[i - 1]))),
        LAMBDA c : IF IsSpace(c) THEN " " ELSE c)

\* the number of leading characters of t that satisfy the class
RECURSIVE LeadingDigits(_)
LeadingDigits(t) ==
    IF t # <<>> /\ IsDigit(Head(t)) THEN 1 + LeadingDigits(Tail(t)) ELSE 0

Drop(t, k) == SubSeq(t, k + 1, Len(t))
StartsWithSpace(t) == t # <<>> /\ IsSpace(Head(t))
StartsWith(t, c) == t # <<>> /\ Head(t) = c


(***************************************************************************)
(* looksLikeList: the six regular expressions, each anchored at the start  *)
(* of the trimmed text                                                     *)
(***************************************************************************)
\* the text after the prefix \(?\d{1,3} ; <<"fail">> when the prefix does not
\* match.  \d{1,3} cannot stop before the last leading digit, since no digit
\* can match what follows it in either expression.
NoMatch == <<"fail">>

AfterNumber(t) ==
    LET u == IF StartsWith(t, "(") THEN Tail(t) ELSE t
        k == LeadingDigits(u)
    IN  IF k >= 1 /\ k <= 3 THEN Drop(u, k) ELSE NoMatch

\* /^(•|‣|◦|–|—|-|\*)\s+/
BulletMarker(t) == t # <<>> /\ IsBulletGlyph(Head(t)) /\ StartsWithSpace(Tail(t))

\* /^\(?\d{1,3}\)?\.\s+/
NumberDotMarker(t) ==
    LET r == AfterNumber(t)
        q == IF StartsWith(r, ")") THEN Tail(r) ELSE r
    IN  r # NoMatch /\ StartsWith(q, ".") /\ StartsWithSpace(Tail(q))

\* a faulty variant of NumberParenMarker, in which \)? never gives back
\* the parenthesis it has taken
NumberParenGreedy(t) ==
    LET r == AfterNumber(t)
    IN  /\ r # NoMatch
        /\ StartsWith(r, ")")
        /\ StartsWith(Tail(r), ")") /\ StartsWithSpace(Tail(Tail(r)))

\* /^\(?\d{1,3}\)?\)\s+/
NumberParenMarker(t) ==
    LET r == AfterNumber(t)
    IN  /\ r # NoMatch
        /\ StartsWith(r, ")")
        /\ \/ StartsWithSpace(Tail(r))
           \/ StartsWith(Tail(r), ")") /\ StartsWithSpace(Tail(Tail(r)))

\* /^[A-Za-z]\.\s+/ and /^[A-Za-z]\)\s+/
AlphaMarker(t) ==
    /\ t # <<>> /\ IsAlpha(Head(t))
    /\ StartsWith(Tail(t), ".") \/ StartsWith(Tail(t), ")")
    /\ StartsWithSpace(Tail(Tail(t)))

\* /^\[(?: |x|X)\]\s+/
CheckboxMarker(t) ==
    /\ Len(t) >= 4
    /\ t[1] = "[" /\ t[2] \in {" ", "x", "X"} /\ t[3] = "]"
    /\ IsSpace(t[4])

looksLikeList(text) ==
    LET t == Trim(text)
    IN  /\ t # <<>>
        /\ \/ BulletMarker(t)
           \/ NumberDotMarker(t)
           \/ NumberParenMarker(t)
           \/ AlphaMarker(t)
           \/ CheckboxMarker(t)

\* /^\d{1,3}$/.test(text.trim())
BareNumber(text) ==
    LET t == Trim(text)
    IN  Len(t) >= 1 /\ Len(t) <= 3 /\ LeadingDigits(t) = Len(t)

(***************************************************************************)
(* Span normalizer (pdfToText, the map/filter over textContent.items)      *)
(***************************************************************************)
\* the value of an absent numeric property (typeof it.width !== 'number')
NoNum == <<"undefined">>

NumOrZero(v) == IF v = NoNum THEN Zero ELSE v

estimateWidth(str, fontSize) ==
    RMax(Zero, RMul(RMul(R(Len(str)), fontSize), Frac(6, 10)))

SpanOf(it, id, fontSize, width, height) ==
    [id |-> id, text |-> it.str, x |-> it.e, y |-> it.f,
     width |-> width, height |-> height, fontSize |-> fontSize,
     baselineY |-> RAdd(it.f, RMax(height, fontSize))]

SpanWithFont(it, id, fontSize) ==
    SpanOf(it, id, fontSize,
           IF it.width # NoNum THEN it.width ELSE estimateWidth(it.str, fontSize),
           IF it.height # NoNum THEN it.height ELSE RMax(fontSize, R(1)))

\* it: [str, a, d, e, f, width, height] with transform = [a, _, _, d, e, f];
\* id is the item's index in textContent.items (the object's identity).
\* median([]) is 0, as is the fontSize of an item with no size candidate.
NormalizeItem(it, id) ==
    SpanWithFont(it, id,
        median(NonZero(<<RAbs(NumOrZero(it.height)), RAbs(it.a), RAbs(it.d)>>)))

NormalizedSpans(its) ==
    Filter([i \in 1..Len(its) |-> NormalizeItem(its[i], i)],
           LAMBDA sp : sp.text # <<>>)

\* spans.sort comparator: larger baselineY first when more than 2 apart,
\* otherwise by x ascending
SpanLess(a, b) ==
    IF RGt(RAbs(RSub(b.baselineY, a.baselineY)), R(2))
    THEN RLt(RSub(b.baselineY, a.baselineY), Zero)
    ELSE RLt(RSub(a.x, b.x), Zero)

\* a faulty variant of SortedSpanOutcomes, for a sort that is not stable:
\* every order in which no span comes after one it has to precede
SortedSpanOutcomesUnstable(its) ==
    {o \in AllOrders(NormalizedSpans(its)) :
        \A i, j \in 1..Len(o) : i < j => ~SpanLess(o[j], o[i])}

SortedSpanOutcomes(its) == SortOutcomes(NormalizedSpans(its), SpanLess)

(***************************************************************************)
(* Line grouper                                                            *)
(***************************************************************************)
\* a faulty variant of ToleranceFor, which has no lower clamp
ToleranceForNoFloor(med, baselineSpread) ==
    RAdd(RMin(Frac(45, 10), RMul(med, Frac(28, 100))),
         IF RGt(baselineSpread, RMul(med, R(4))) THEN Frac(8, 10) ELSE Zero)

ToleranceFor(med, baselineSpread) ==
    RAdd(RMin(Frac(45, 10), RMax(Frac(12, 10), RMul(med, Frac(28, 100)))),
         IF RGt(baselineSpread, RMul(med, R(4))) THEN Frac(8, 10) ELSE Zero)

SpreadOf(values) == RSub(RMaxOf(values), RMinOf(values))

dynamicYTolerance(sps) ==
    IF Len(sps) = 0 THEN Frac(25, 10)
    ELSE ToleranceFor(
            OrElse(median(NonZero(Map(sps, LAMBDA sp : RAbs(OrElse(sp.height, sp.fontSize))))),
                   R(8)),
            SpreadOf(Map(sps, LAMBDA sp : sp.baselineY)))

getBaseline(sp) == sp.baselineY
getFontSize(sp) == OrElse(sp.fontSize, sp.height)

LineBaselines(line) == Map(line, getBaseline)
LineFontMedian(line) == median(NonZero(Map(line, getFontSize)))

RatioExceeds(refFont, sFont) ==
    /\ refFont # Zero /\ sFont # Zero
    /\ RGt(RDiv(RMax(refFont, sFont), RMax(R(1), RMin(refFont, sFont))), Frac(16, 10))

\* the font-ratio test of the greedy pass: TRUE when the line is skipped
FontRatioTooLarge(line, sp) ==
    RatioExceeds(OrElse(LineFontMedian(line), getFontSize(sp)), getFontSize(sp))

LineDelta(line, sp) == RAbs(RSub(getBaseline(sp), average(LineBaselines(line))))

\* per line, its delta to the span, or <<"skip">> when the line is skipped
\* (font ratio) or too far
SkipLine == <<"skip">>

DeltaOrSkip(line, sp, delta, yTolerance) ==
    IF ~FontRatioTooLarge(line, sp) /\ RLe(delta, yTolerance) THEN delta ELSE SkipLine

LineDeltas(lns, sp, yTolerance) ==
    [i \in 1..Len(lns) |-> DeltaOrSkip(lns[i], sp, LineDelta(lns[i], sp), yTolerance)]


\* a faulty variant of BestOf, which takes the first line that qualifies
FirstQualifying(deltas) ==
    IF \A i \in 1..Len(deltas) : deltas[i] = SkipLine THEN 0
    ELSE CHOOSE i \in 1..Len(deltas) :
            deltas[i] # SkipLine /\ \A j \in 1..(i - 1) : deltas[j] = SkipLine

\* bestLineIdx of the inner loop (0 when no line qualifies): the qualifying
\* line of least delta, the first of them on a tie
BestOf(deltas) ==
    IF \A i \in 1..Len(deltas) : deltas[i] = SkipLine THEN 0
    ELSE CHOOSE i \in 1..Len(deltas) :
            /\ deltas[i] # SkipLine
            /\ \A j \in 1..Len(deltas) :
                  deltas[j] # SkipLine =>
                     \/ RLt(deltas[i], deltas[j])
                     \/ deltas[i] = deltas[j] /\ i <= j

BestLineIdx(lns, sp, yTolerance) == BestOf(LineDeltas(lns, sp, yTolerance))

PlaceSpan(lns, sp, b) ==
    IF b > 0 THEN [lns EXCEPT ![b] = Append(@, sp)] ELSE Append(lns, <<sp>>)

RECURSIVE GreedyAssign(_, _, _)
GreedyAssign(lns, sps, yTolerance) ==
    IF sps = <<>> THEN lns
    ELSE GreedyAssign(PlaceSpan(lns, Head(sps), BestLineIdx(lns, Head(sps), yTolerance)),
                      Tail(sps), yTolerance)

GreedyLines(sps, yTolerance) == GreedyAssign(<<>>, sps, yTolerance)


(***************************************************************************)
(* kmeans1D with k = 2: the assignments array (0 or 1 per value).  The     *)
(* code returns null only for an empty array, which the caller never       *)
(* passes.                                                                 *)
(***************************************************************************)
MaxIter == 12

KAssign(values, centers) ==
    [i \in 1..Len(values) |->
        IF RLe(RAbs(RSub(values[i], centers[1])), RAbs(RSub(values[i], centers[2])))
        THEN 0 ELSE 1]

KGroup(values, assignments, a) ==
    LET idx == Filter([i \in 1..Len(values) |-> i], LAMBDA i : assignments[i] = a)
    IN  [k \in 1..Len(idx) |-> values[idx[k]]]

CenterOf(group, old) == IF Len(group) > 0 THEN average(group) ELSE old

RECURSIVE KIterate(_, _, _, _)

\* the end of one iteration, given the new assignments and centers
KStep(values, centers, assignments, iter, assigned, newC0, newC1) ==
    IF \/ assigned = assignments
       \/ RLt(RAdd(RAbs(RSub(newC0, centers[1])), RAbs(RSub(newC1, centers[2]))),
              Frac(1, 1000))
    THEN assigned
    ELSE KIterate(values, <<newC0, newC1>>, assigned, iter + 1)

KRecenter(values, centers, assignments, iter, assigned) ==
    KStep(values, centers, assignments, iter, assigned,
          CenterOf(KGroup(values, assigned, 0), centers[1]),
          CenterOf(KGroup(values, assigned, 1), centers[2]))

KIterate(values, centers, assignments, iter) ==
    IF iter >= MaxIter THEN assignments
    ELSE KRecenter(values, centers, assignments, iter, KAssign(values, centers))

KStart(values, min, max) ==
    IF min = max THEN [i \in 1..Len(values) |-> 0]
    ELSE KIterate(values, <<min, max>>, [i \in 1..Len(values) |-> 0], 0)

kmeans1D(values) == KStart(values, RMinOf(values), RMaxOf(values))

\* a faulty variant of SplitBound, without the font term
SplitBoundToleranceOnly(line, yTolerance) == RMul(yTolerance, Frac(15, 10))

\* the split test of the post-process pass
SplitBound(line, yTolerance) ==
    RMax(RMul(yTolerance, Frac(15, 10)),
         RMul(OrElse(LineFontMedian(line), R(8)), Frac(65, 100)))

LineSpread(line) == SpreadOf(LineBaselines(line))

NeedsSplit(line, yTolerance) == RGt(LineSpread(line), SplitBound(line, yTolerance))

LinePart(line, assignments, a) ==
    LET idx == Filter([i \in 1..Len(line) |-> i], LAMBDA i : assignments[i] = a)
    IN  [k \in 1..Len(idx) |-> line[idx[k]]]

\* a faulty variant of SplitParts, which loses lineB
SplitPartsDropB(line, lineA, lineB) ==
    IF Len(lineA) >= 1 /\ Len(lineB) >= 1 THEN <<lineA>> ELSE <<line>>

\* splitLines.push(lineA, lineB) when both are non-empty, else the line
SplitParts(line, lineA, lineB) ==
    IF Len(lineA) >= 1 /\ Len(lineB) >= 1 THEN <<lineA, lineB>> ELSE <<line>>

SplitBy(line, assignments) ==
    SplitParts(line, LinePart(line, assignments, 0), LinePart(line, assignments, 1))

\* what one greedy line contributes to splitLines: itself, or lineA, lineB
SplitLine(line, yTolerance) ==
    IF NeedsSplit(line, yTolerance) THEN SplitBy(line, kmeans1D(LineBaselines(line)))
    ELSE <<line>>

PostSplit(lns, yTolerance) ==
    Flatten([i \in 1..Len(lns) |-> SplitLine(lns[i], yTolerance)])

LineMinX(line) == RMinOf(Map(line, LAMBDA sp : sp.x))
LineMeanBaseline(line) == average(LineBaselines(line))

LineOrder(ay, by, ax, bx) ==
    IF RGt(RAbs(RSub(by, ay)), Frac(1, 1000)) THEN RLt(RSub(by, ay), Zero)
    ELSE RLt(RSub(ax, bx), Zero)

\* a faulty variant of LineLess, which puts the lower line first
LineLessAscending(a, b) ==
    LineOrder(LineMeanBaseline(b), LineMeanBaseline(a), LineMinX(a), LineMinX(b))

\* splitLines.sort comparator
LineLess(a, b) ==
    LineOrder(LineMeanBaseline(a), LineMeanBaseline(b), LineMinX(a), LineMinX(b))

\* the lines returned, given the lines of the greedy pass: the possible
\* results (one, unless the final sort's comparator is inconsistent on
\* the lines)
SortedLineOutcomes(gl, yTolerance) == SortOutcomes(PostSplit(gl, yTolerance), LineLess)

groupSpansIntoLines(sps, yTolerance) ==
    SortedLineOutcomes(GreedyLines(sps, yTolerance), yTolerance)

(***************************************************************************)
(* Line block builder                                                      *)
(***************************************************************************)
XLess(a, b) == RLt(RSub(a.x, b.x), Zero)

\* a faulty variant of GapNeedsSpace, which takes the font size of prev
GapNeedsSpacePrevFont(prev, sp) ==
    RGt(RSub(sp.x, RAdd(prev.x, prev.width)),
        RMax(Frac(15, 10), RMul(OrElse(prev.fontSize, R(10)), Frac(2, 10))))

\* the gap test of joinLineText between prev and the span s that follows it
GapNeedsSpace(prev, sp) ==
    RGt(RSub(sp.x, RAdd(prev.x, prev.width)),
        RMax(Frac(15, 10), RMul(OrElse(sp.fontSize, R(10)), Frac(2, 10))))

JoinParts(lineSpans) ==
    Flatten([i \in 1..Len(lineSpans) |->
        IF i > 1 /\ GapNeedsSpace(lineSpans[i - 1], lineSpans[i])
        THEN <<" ">> \o lineSpans[i].text
        ELSE lineSpans[i].text])

joinLineText(lineSpans) ==
    IF Len(lineSpans) = 0 THEN <<>> ELSE Trim(CollapseSpaces(JoinParts(lineSpans)))

BBoxOf(minX, maxX, minY, maxY) ==
    [x |-> round(minX), y |-> round(minY),
     width |-> round(RSub(maxX, minX)), height |-> round(RSub(maxY, minY))]

\* a faulty variant of computeBBox, which takes the box of the first span
computeBBoxFirstSpan(sps) ==
    IF Len(sps) = 0 THEN [x |-> Zero, y |-> Zero, width |-> Zero, height |-> Zero]
    ELSE BBoxOf(sps[1].x, RAdd(sps[1].x, sps[1].width),
                sps[1].y, RAdd(sps[1].y, sps[1].height))

computeBBox(sps) ==
    IF Len(sps) = 0 THEN [x |-> Zero, y |-> Zero, width |-> Zero, height |-> Zero]
    ELSE BBoxOf(RMinOf(Map(sps, LAMBDA sp : sp.x)),
                RMaxOf(Map(sps, LAMBDA sp : RAdd(sp.x, sp.width))),
                RMinOf(Map(sps, LAMBDA sp : sp.y)),
                RMaxOf(Map(sps, LAMBDA sp : RAdd(sp.y, sp.height))))

BlockOf(lineSpans) ==
    [text |-> joinLineText(lineSpans),
     fontSize |-> median(Map(lineSpans, LAMBDA sp : sp.fontSize)),
     spans |-> lineSpans,
     bbox |-> computeBBox(lineSpans)]

\* one element of lineBlocks (lineSpans.sort((a, b) => a.x - b.x) first);
\* font family, bold and italic are not modelled
LineBlock(line) == BlockOf(StableSorted(line, XLess))

BuildLineBlocks(lns) == [i \in 1..Len(lns) |-> LineBlock(lns[i])]


(***************************************************************************)
(* Structure classifier (pdfToText, "Heuristics to assign structure        *)
(* types")                                                                 *)
(***************************************************************************)
BlockFontSizes(lbs) == NonZero(Map(lbs, LAMBDA lb : lb.fontSize))
MaxOrZero(sizes) == IF Len(sizes) > 0 THEN RMaxOf(sizes) ELSE Zero
MedOrZero(sizes) == IF Len(sizes) > 0 THEN median(sizes) ELSE Zero
MaxFont(lbs) == MaxOrZero(BlockFontSizes(lbs))
MedFont(lbs) == MedOrZero(BlockFontSizes(lbs))

headingCutoff(maxFont, medFont) ==
    IF maxFont # Zero
    THEN RMax(RMul(maxFont, Frac(9, 10)), RMul(medFont, Frac(135, 100)))
    ELSE RMul(medFont, Frac(135, 100))

\* the local isHeading of the chunk callback
isHeading(lb, maxFont, medFont) ==
    /\ ~looksLikeList(lb.text)
    /\ Len(lb.text) <= 120
    /\ \/ RGe(lb.fontSize, headingCutoff(maxFont, medFont))
       \/ RGt(medFont, Zero) /\ RGe(lb.fontSize, RMul(medFont, Frac(15, 10)))
    /\ ~BareNumber(lb.text)

\* a faulty variant of ChunkType, which decides on the font size first
ChunkTypeFontFirst(lb, maxFont, medFont) ==
    IF Len(lb.text) <= 120 /\ RGe(lb.fontSize, headingCutoff(maxFont, medFont))
    THEN "heading"
    ELSE IF looksLikeList(lb.text) THEN "list" ELSE "paragraph"

\* const type = isList ? 'list' : 'paragraph'; the branch on isHeading that
\* follows it in the code is empty
ChunkType(lb, maxFont, medFont) ==
    IF looksLikeList(lb.text) THEN "list" ELSE "paragraph"

RoundSpan(sp) ==
    [id |-> sp.id, text |-> sp.text, x |-> round(sp.x), y |-> round(sp.y),
     width |-> round(sp.width), height |-> round(sp.height),
     fontSize |-> round(sp.fontSize)]

Chunk(lb, maxFont, medFont) ==
    [type |-> ChunkType(lb, maxFont, medFont),
     text |-> lb.text,
     bbox |-> lb.bbox,
     font |-> [size |-> round(lb.fontSize)],
     spans |-> Map(lb.spans, RoundSpan)]

ChunksWith(lbs, maxFont, medFont) ==
    [i \in 1..Len(lbs) |-> Chunk(lbs[i], maxFont, medFont)]

BuildChunks(lbs) == ChunksWith(lbs, MaxFont(lbs), MedFont(lbs))

(***************************************************************************)
(* Column / reading-order resolver.  Blocks are referred to by their index *)
(* in lineBlocks.                                                          *)
(***************************************************************************)
estimatePageWidth(sps) ==
    IF Len(sps) = 0 THEN Zero
    ELSE RMaxOf(Map(sps, LAMBDA sp : RAdd(sp.x, sp.width)))

BoxX(lb) == lb.bbox.x
BoxW(lb) == lb.bbox.width
BoxY(lb) == lb.bbox.y
XMid(lb) == RAdd(BoxX(lb), RDiv(BoxW(lb), R(2)))

\* (b._y - a._y) || (a._x - b._x)
YXLess(a, b) ==
    IF RSub(BoxY(b), BoxY(a)) # Zero THEN RLt(RSub(BoxY(b), BoxY(a)), Zero)
    ELSE RLt(RSub(BoxX(a), BoxX(b)), Zero)

SortIdxYX(lbs, idx) == StableSorted(idx, LAMBDA i, j : YXLess(lbs[i], lbs[j]))

\* a faulty variant of gutterThreshold, which takes a zero page width or
\* a zero median width as it is
gutterThresholdZero(lbs, pageWidth) ==
    RMax(R(12), RMin(RMul(pageWidth, Frac(12, 100)),
                     RMul(median(NonZero(Map(lbs, BoxW))), Frac(8, 10))))

gutterThreshold(lbs, pageWidth) ==
    RMax(R(12), RMin(OrElse(RMul(pageWidth, Frac(12, 100)), R(9999)),
                     OrElse(RMul(median(NonZero(Map(lbs, BoxW))), Frac(8, 10)), R(9999))))

\* first-pass clustering: mids are the blocks' midpoints in ascending
\* order, sorted the block indices in that order
RECURSIVE ClusterWalk(_, _, _, _, _)
ClusterWalk(mids, sorted, gutter, k, clusters) ==
    IF k > Len(sorted) THEN clusters
    ELSE IF k > 1 /\ ~RGt(RSub(mids[k], mids[k - 1]), gutter)
         THEN ClusterWalk(mids, sorted, gutter, k + 1,
                          [clusters EXCEPT ![Len(clusters)] = Append(@, sorted[k])])
         ELSE ClusterWalk(mids, sorted, gutter, k + 1, Append(clusters, <<sorted[k]>>))

ClustersOf(lbs, sorted, gutter) ==
    ClusterWalk([k \in 1..Len(sorted) |-> XMid(lbs[sorted[k]])], sorted, gutter, 1, <<>>)

XMidLess(a, b) == RLt(RSub(a[1], b[1]), Zero)

\* enriched.sort((a, b) => a._xMid - b._xMid), as block indices
SortedByXMid(lbs) ==
    Map(StableSorted([i \in 1..Len(lbs) |-> <<XMid(lbs[i]), i>>], XMidLess),
        LAMBDA e : e[2])

Clusters(lbs, pageWidth) ==
    ClustersOf(lbs, SortedByXMid(lbs), gutterThreshold(lbs, pageWidth))

ColumnOf(lbs, group) ==
    [x |-> RMinOf(Map(group, LAMBDA i : BoxX(lbs[i]))),
     w |-> RSub(RMaxOf(Map(group, LAMBDA i : RAdd(BoxX(lbs[i]), BoxW(lbs[i])))),
                RMinOf(Map(group, LAMBDA i : BoxX(lbs[i])))),
     lines |-> SortIdxYX(lbs, group)]

NarrowLimit(pageWidth) == RMax(R(40), RMul(pageWidth, Frac(8, 100)))

\* prev after col is attached to it
Attach(lbs, prev, col, px) ==
    [x |-> px,
     w |-> RMax(prev.w, RSub(RAdd(col.x, col.w), px)),
     lines |-> SortIdxYX(lbs, prev.lines \o col.lines)]

\* the merge loop over the columns sorted left to right
RECURSIVE MergeNarrow(_, _, _, _)
MergeNarrow(lbs, cols, limit, merged) ==
    IF cols = <<>> THEN merged
    ELSE IF RLt(Head(cols).w, limit) /\ Len(merged) > 0
         THEN MergeNarrow(lbs, Tail(cols), limit,
                  [merged EXCEPT ![Len(merged)] =
                      Attach(lbs, @, Head(cols), RMin(@.x, Head(cols).x))])
         ELSE MergeNarrow(lbs, Tail(cols), limit, Append(merged, Head(cols)))

\* a faulty variant of ColumnXLess, which sorts the columns right to left
ColumnXGreater(a, b) == RLt(RSub(b.x, a.x), Zero)

\* columns.sort((a, b) => a.x - b.x)
ColumnXLess(a, b) == RLt(RSub(a.x, b.x), Zero)

ColumnsOf(lbs, pageWidth, clusters) ==
    IF Len(clusters) <= 1
    THEN <<ColumnOf(lbs, [i \in 1..Len(lbs) |-> i])>>
    ELSE MergeNarrow(lbs,
            StableSorted([k \in 1..Len(clusters) |-> ColumnOf(lbs, clusters[k])],
                         ColumnXLess),
            NarrowLimit(pageWidth), <<>>)

\* a faulty variant of detectColumns, which returns no column for no lines
detectColumnsNoneForEmpty(lbs, pageWidth) ==
    IF Len(lbs) = 0 THEN <<>>
    ELSE IF Len(lbs) = 1
    THEN <<[x |-> Zero, w |-> pageWidth, lines |-> <<1>>]>>
    ELSE ColumnsOf(lbs, pageWidth, Clusters(lbs, pageWidth))

detectColumns(lbs, pageWidth) ==
    IF Len(lbs) <= 1
    THEN <<[x |-> Zero, w |-> pageWidth, lines |-> [i \in 1..Len(lbs) |-> i]]>>
    ELSE ColumnsOf(lbs, pageWidth, Clusters(lbs, pageWidth))

\* the comparator of the single-column fallback sort
FallbackLess(a, b) ==
    IF RGt(RAbs(RSub(BoxY(b), BoxY(a))), R(2)) THEN RLt(RSub(BoxY(b), BoxY(a)), Zero)
    ELSE RLt(RSub(BoxX(a), BoxX(b)), Zero)

\* orderedLineBlocks, as block indices: the possible results
OrderedOutcomes(lbs, columns) ==
    IF Len(columns) > 1
    THEN {Flatten([k \in 1..Len(columns) |-> columns[k].lines])}
    ELSE SortOutcomes([i \in 1..Len(lbs) |-> i],
                      LAMBDA i, j : FallbackLess(lbs[i], lbs[j]))


(***************************************************************************)
(* Page text (pdfToText, raw / normalized / truncated)                     *)
(***************************************************************************)
\* arr.join('\n')
RECURSIVE JoinNL(_)
JoinNL(texts) ==
    IF texts = <<>> THEN <<>>
    ELSE IF Len(texts) = 1 THEN texts[1]
         ELSE texts[1] \o <<"NL">> \o JoinNL(Tail(texts))

\* replace(/\s+\n/g, '\n'): a whitespace character followed, within its
\* run of whitespace, by a newline is part of a match and is dropped; the
\* last newline of the run is what the match is replaced by
BeforeNLInRun(t, i) ==
    /\ IsSpace(t[i])
    /\ \E l \in (i + 1)..Len(t) : t[l] = "NL" /\ \A j \in i..l : IsSpace(t[j])

ReplaceSpaceNL(t) ==
    KeepAt(t, SelectSeq(Indices(t), LAMBDA i : ~BeforeNLInRun(t, i)))

\* replace(/[ \t]+/g, ' ')
IsBlank(c) == c \in {" ", "TAB"}

CollapseBlanks(t) ==
    Map(KeepAt(t, SelectSeq(Indices(t),
                            LAMBDA i : ~IsBlank(t[i]) \/ i = 1 \/ ~IsBlank(t[i - 1]))),
        LAMBDA c : IF IsBlank(c) THEN " " ELSE c)

\* a faulty variant of Slice, which keeps one character more
SliceOneMore(t, n) == SubSeq(t, 1, IF n + 1 < Len(t) THEN n + 1 ELSE Len(t))

Slice(t, n) == SubSeq(t, 1, IF n < Len(t) THEN n ELSE Len(t))

PageText(lbs, order, maxCharsPerPage) ==
    LET raw == Trim(ReplaceSpaceNL(JoinNL([k \in 1..Len(order) |-> lbs[order[k]].text])))
        normalized == Trim(CollapseBlanks(ReplaceSpaceNL(raw)))
    IN  Slice(normalized, IF maxCharsPerPage > 0 THEN maxCharsPerPage ELSE 0)

PageStats(lbs, cols) ==
    [maxFont |-> round(MaxFont(lbs)),
     medianFont |-> round(MedFont(lbs)),
     lineCount |-> Len(lbs),
     columns |-> Len(cols),
     columnBoundaries |->
        [k \in 1..Len(cols) |->
            [x |-> round(cols[k].x), w |-> round(cols[k].w), lines |-> Len(cols[k].lines)]]]

(***************************************************************************)
(* Documents.  Item(str, size, x, y, w, h) is a text item with string str, *)
(* transform [size, 0, 0, size, x, y], width w and height h.  A family is  *)
(* a tuple of items; a page of a document of that family holds at most     *)
(* MaxItems of them, in the family's order.                                *)
(***************************************************************************)
MaxItems == 5

Item(str, size, x, y, w, h) ==
    [str |-> str, a |-> size, d |-> size, e |-> x, f |-> y, width |-> w, height |-> h]

\* runs of font size 10 and glyph height 20 on close baselines (the four
\* of them chain into one greedy line), runs of font size 16 and 20 on the
\* lowest of these baselines, a run far up the page, a run without width
\* and height, a run with empty text, and four runs on close baselines
\* that have neither a font size nor a height
LineItems ==
    <<Item(<<"a">>, R(10), R(0), Frac(33, 4), R(30), R(20)),
      Item(<<"b">>, R(10), R(40), Frac(15, 4), R(30), R(20)),
      Item(<<"c">>, R(10), R(80), Frac(3, 2), R(30), R(20)),
      Item(<<"d">>, R(10), R(120), R(0), R(30), R(20)),
      Item(<<"f">>, R(16), R(160), R(0), R(30), R(20)),
      Item(<<"g">>, R(20), R(200), R(0), R(30), R(20)),
      Item(<<"t">>, R(10), R(0), R(200), R(30), R(10)),
      Item(<<"u", "v">>, R(10), R(70), R(40), NoNum, NoNum),
      Item(<<>>, R(10), R(0), R(0), R(0), R(10)),
      Item(<<"w">>, R(0), R(0), R(104), R(30), R(0)),
      Item(<<"x">>, R(0), R(40), R(102), R(30), R(0)),
      Item(<<"y">>, R(0), R(80), R(101), R(30), R(0)),
      Item(<<"z">>, R(0), R(120), Frac(501, 5), R(30), R(0))>>

\* fragments of one line of font size 12 (joined left to right they spell
\* numeric markers and near misses), and lines of their own: three of font
\* size 12 (four digits and a dot, a letter marker, a checkbox), a title,
\* a bare number and a bulleted line of font size 26, and a line of 121
\* characters of font size 28
Fragment(str, x) == Item(str, R(12), R(x), R(300), R(1), R(12))
TextLine(str, size, y) == Item(str, R(size), R(0), R(y), R(50), R(size))

LongText == [i \in 1..121 |-> "a"]

ClassifyItems ==
    <<Fragment(<<"(">>, 0), Fragment(<<"1">>, 1), Fragment(<<")">>, 2),
      Fragment(<<".">>, 3), Fragment(<<")">>, 4), Fragment(<<" ", "a">>, 5),
      TextLine(<<"1", "2", "3", "4", ".", " ", "a">>, 12, 0),
      TextLine(<<"a", ")", " ", "b">>, 12, 20),
      TextLine(<<"[", "x", "]", " ", "a">>, 12, 40),
      TextLine(<<"T", "i", "t", "l", "e">>, 26, 80),
      TextLine(<<"4", "2">>, 26, 120),
      TextLine(<<"U2022", " ", "a">>, 26, 160),
      TextLine(LongText, 28, 200)>>

\* blocks of three columns (x = 0, 200, 400, width 100) at distinct
\* heights, a narrow run left of them and one right of the second column,
\* a wide block, and a large-font run whose y is within 2 of block A's
ColumnItems ==
    <<Item(<<"A">>, R(10), R(0), R(100), R(100), R(10)),
      Item(<<"B">>, R(10), R(0), R(80), R(100), R(10)),
      Item(<<"C">>, R(10), R(200), R(90), R(100), R(10)),
      Item(<<"D">>, R(10), R(200), R(70), R(100), R(10)),
      Item(<<"1">>, R(10), R(0), R(60), R(10), R(10)),
      Item(<<"2">>, R(10), R(320), R(50), R(10), R(10)),
      Item(<<"E">>, R(30), R(40), R(101), R(20), R(30)),
      Item(<<"F">>, R(10), R(400), R(95), R(100), R(10)),
      Item(<<"W">>, R(10), R(0), R(130), R(300), R(10))>>

\* runs on one baseline at several gaps after "Hello" (x = 0, width 30),
\* among them runs of font size 8 and 0, and a run on another line
JoinItems ==
    <<Item(<<"H", "e", "l", "l", "o">>, R(12), R(0), R(0), R(30), R(12)),
      Item(<<"H", "i", " ">>, R(12), R(0), R(0), R(30), R(12)),
      Item(<<"W", "o", "r", "l", "d">>, R(12), R(30), R(0), R(30), R(12)),
      Item(<<"o">>, R(0), Frac(159, 5), R(12), R(5), R(0)),
      Item(<<"s">>, R(8), Frac(159, 5), R(4), R(5), R(8)),
      Item(<<"W", "o", "r", "l", "d">>, R(12), R(32), R(0), R(30), R(12)),
      Item(<<"p">>, R(12), Frac(162, 5), R(0), R(30), R(12)),
      Item(<<"W", "o", "r", "l", "d">>, R(12), R(33), R(0), R(30), R(12)),
      Item(<<"TAB", "x">>, R(12), R(70), R(0), R(30), R(12)),
      Item(<<"n">>, R(12), R(0), R(50), R(30), R(12))>>

\* runs whose coordinates and sizes are odd multiples of 1/16 or 1/8
\* (Part(n, d) is n / d), which rounding to two decimals moves up or down:
\* a run alone on its line, two pairs of runs that share a line, a run
\* whose coordinates end in 5 at the third decimal, and a run left of
\* the page origin
Part(n, d) == Frac(n, d)

BBoxItems ==
    <<Item(<<"p">>, R(10), Part(35, 16), Part(163, 16), R(3), R(10)),
      Item(<<"q">>, R(10), Part(97, 16), Part(163, 16), Part(33, 16), Part(161, 16)),
      Item(<<"r">>, R(10), Part(33, 16), Part(481, 16), R(1), Part(161, 16)),
      Item(<<"s">>, R(10), Part(83, 16), Part(481, 16), Part(15, 16), Part(161, 16)),
      Item(<<"t">>, R(10), Part(1, 8), Part(401, 8), Part(5, 8), Part(79, 8)),
      Item(<<"u">>, R(10), Part(-9, 8), Part(1121, 16), Part(1, 16), Part(163, 16)),
      Item(<<"v">>, R(12), Part(35, 16), Part(1123, 16), Part(33, 16), Part(195, 16)),
      Item(<<"w">>, R(10), R(0), R(90), R(30), R(10))>>

\* two runs on lines of their own and a run with empty text
PagesItems ==
    <<Item(<<"a">>, R(10), R(0), R(100), R(30), R(10)),
      Item(<<>>, R(10), R(0), R(50), R(0), R(10)),
      Item(<<"b">>, R(10), R(0), R(0), R(30), R(10))>>

\* runs that tie: two runs at one place, runs of font size 24 on the
\* baseline of these (one at their x), two runs of different font size at
\* one place, and a run far up the page
TieItems ==
    <<Item(<<"H", "e", "l", "l", "o">>, R(12), R(0), R(0), R(30), R(12)),
      Item(<<"H", "i", " ">>, R(12), R(0), R(0), R(30), R(12)),
      Item(<<"G">>, R(24), R(40), R(-12), R(30), R(24)),
      Item(<<"K">>, R(24), R(0), R(-12), R(30), R(24)),
      Item(<<"P">>, R(12), R(0), R(100), R(30), R(12)),
      Item(<<"Q">>, R(24), R(0), R(100), R(30), R(12)),
      Item(<<"T">>, R(12), R(0), R(200), R(30), R(12))>>

\* three runs of font size 10 on lines of their own, a run that starts
\* with a space, a run with empty text, and two runs of white space only:
\* a space of font size 40 far to the right and a tab and a space at the
\* end of the first line
BlankItems ==
    <<Item(<<"a">>, R(10), R(0), R(0), R(30), R(10)),
      Item(<<"b">>, R(10), R(0), R(30), R(30), R(10)),
      Item(<<"c">>, R(10), R(0), R(60), R(30), R(10)),
      Item(<<" ", "x">>, R(10), R(40), R(60), R(30), R(10)),
      Item(<<>>, R(10), R(0), R(0), R(0), R(10)),
      Item(<<" ">>, R(40), R(500), R(100), R(10), R(40)),
      Item(<<"TAB", " ">>, R(10), R(30), R(0), R(10), R(10))>>

\* runs of font size 10 whose baselines lie within 3 of each other (the
\* third and the fourth between the first two, the fourth halfway), a run
\* below them, a run of font size 20 on the baseline of the third, and a
\* run far up the page
Run(str, x, y) == Item(str, R(10), R(x), y, R(30), R(10))

GreedyItems ==
    <<Run(<<"a">>, 0, R(93)),
      Run(<<"b">>, 50, R(90)),
      Run(<<"c">>, 100, R(91)),
      Run(<<"d">>, 150, Frac(183, 2)),
      Run(<<"e">>, 200, R(89)),
      Item(<<"F">>, R(20), R(250), R(81), R(30), R(20)),
      Run(<<"t">>, 0, R(200))>>

\* runs of font size 10, 20 and 40, which the greedy pass keeps on lines of
\* their own: a and c make a line of mean baseline 101.65 created before
\* the line of B (102); A (60), N (59.9995), E (60) and M (60.0008) have
\* baselines within 0.0013 of each other
OrderItems ==
    <<Run(<<"a">>, 0, R(93)),
      Item(<<"B">>, R(20), R(50), R(82), R(30), R(20)),
      Run(<<"c">>, 100, Frac(903, 10)),
      Run(<<"A">>, 50, R(50)),
      Item(<<"N">>, R(20), R(0), Frac(79999, 2000), R(10), R(20)),
      Item(<<"E">>, R(20), R(20), R(40), R(10), R(20)),
      Item(<<"M">>, R(40), R(70), Frac(25001, 1250), R(10), R(40))>>

\* runs on baselines of their own: three of width 0 (midpoints 0, 20 and
\* 200), two that end at x = 0 (midpoints -50 and -30, page width 0), and
\* two of width 100 (midpoints 50 and 200)
Wide(str, x, y, w) == Item(str, R(10), R(x), R(y), R(w), R(10))

GutterItems ==
    <<Wide(<<"z">>, 0, 700, 0),
      Wide(<<"y">>, 20, 600, 0),
      Wide(<<"x">>, 200, 500, 0),
      Wide(<<"n">>, -100, 400, 100),
      Wide(<<"m">>, -60, 300, 60),
      Wide(<<"w">>, 0, 200, 100),
      Wide(<<"v">>, 150, 100, 100)>>

\* runs of height 0 (font size 20), of no size at all, of height -10, of
\* height 2, 30 and 10, and one of no size far down the page
HeightItems ==
    <<Item(<<"a">>, R(20), R(0), R(100), R(30), R(0)),
      Item(<<"b">>, R(0), R(50), R(100), R(30), R(0)),
      Item(<<"c">>, R(10), R(100), R(100), R(30), R(-10)),
      Item(<<"d">>, R(2), R(0), R(300), R(30), R(2)),
      Item(<<"e">>, R(30), R(0), R(500), R(30), R(30)),
      Item(<<"f">>, R(10), R(0), R(104), R(30), R(10)),
      Item(<<"g">>, R(0), R(0), R(0), R(30), R(0))>>

Family(name) ==
    CASE name = "lines" -> LineItems
      [] name = "classify" -> ClassifyItems
      [] name = "columns" -> ColumnItems
      [] name = "join" -> JoinItems
      [] name = "bbox" -> BBoxItems
      [] name = "pages" -> PagesItems
      [] name = "ties" -> TieItems
      [] name = "blank" -> BlankItems
      [] name = "greedy" -> GreedyItems
      [] name = "order" -> OrderItems
      [] name = "gutter" -> GutterItems
      [] name = "heights" -> HeightItems

\* the k-th smallest element of the set S of numbers
Kth(S, k) == CHOOSE i \in S : Cardinality({j \in S : j < i}) = k - 1

\* the item sequences a page of the family can hold
PageItems(name) ==
    {[k \in 1..Cardinality(S) |-> Family(name)[Kth(S, k)]] :
        S \in {T \in SUBSET (1..Len(Family(name))) : Cardinality(T) <= MaxItems}}

(***************************************************************************)
(* pdfToText as a state machine.  A step is what runs between two awaits:  *)
(* everything from the arrival of a page's text content to the push of     *)
(* that page's result is synchronous and is one step.  spans, yTolerance,  *)
(* greedy, lines, lineBlocks, chunks, pageWidth, columns and ordered hold  *)
(* the locals of the last page processed (greedy: the lines array after    *)
(* the greedy pass, before the post-split pass).  input names the family   *)
(* of the document, maxPages bounds its number of pages.  promise is the    *)
(* promise the async function returned: pending until the function returns *)
(* results (fulfilled) or an awaited call throws (rejected with the error  *)
(* of that call, here the name of the call and the page it was made for).  *)
(* clusters holds the x clusters detectColumns formed for that page.       *)
(* deck is the state of a call of generatePptxFromOutline, norm that of a  *)
(* call of normalizeOutline, http that of a call of callOpenAI, and app    *)
(* the state of the App component (all below); each is at rest while one   *)
(* of the others runs.                                                     *)
(***************************************************************************)
VARIABLES pc, input, maxPages, numPages, pageNum, maxCharsPerPage, items, spans,
          yTolerance, greedy, lines, lineBlocks, chunks, pageWidth, clusters,
          columns, ordered, results, promise, deck, norm, http, app

vars == <<pc, input, maxPages, numPages, pageNum, maxCharsPerPage, items, spans,
          yTolerance, greedy, lines, lineBlocks, chunks, pageWidth, clusters,
          columns, ordered, results, promise, deck, norm, http, app>>

params == <<input, maxPages, maxCharsPerPage>>

\* the calls and the component that take no part in a call of pdfToText
others == <<deck, norm, http, app>>

Idle == [pc |-> "idle"]

locals == <<items, spans, yTolerance, greedy, lines, lineBlocks, chunks,
            pageWidth, clusters, columns, ordered>>

\* a call pdfToText(file, budget) on a document of the family name
InitCall(name, pages, budget) ==
    /\ pc = "start"
    /\ input = name
    /\ maxPages = pages
    /\ numPages = 0
    /\ pageNum = 0
    /\ maxCharsPerPage = budget
    /\ items = <<>>
    /\ spans = <<>>
    /\ yTolerance = Zero
    /\ greedy = <<>>
    /\ lines = <<>>
    /\ lineBlocks = <<>>
    /\ chunks = <<>>
    /\ pageWidth = Zero
    /\ clusters = <<>>
    /\ columns = <<>>
    /\ ordered = <<>>
    /\ results = <<>>
    /\ promise = [state |-> "pending"]
    /\ deck = Idle
    /\ norm = Idle
    /\ http = Idle
    /\ app = Idle

\* the call the application makes: pdfToText(pdfFile, 4000)
InitWith(name, pages) == InitCall(name, pages, 4000)

Rejected(call, page) ==
    [state |-> "rejected", reason |-> [call |-> call, page |-> page]]

Fulfilled(value) == [state |-> "fulfilled", value |-> value]

\* await pdfFile.arrayBuffer(); await getDocument(...).promise
LoadDocument ==
    /\ pc = "start"
    /\ \E n \in 1..maxPages : numPages' = n
    /\ pageNum' = 1
    /\ pc' = "getPage"
    /\ UNCHANGED <<others, params, locals, results, promise>>

LoadFails ==
    /\ pc = "start"
    /\ pc' = "rejected"
    /\ promise' = Rejected("getDocument", 0)
    /\ UNCHANGED <<others, params, numPages, pageNum, locals, results>>

\* await pdf.getPage(pageNum)
GetPage ==
    /\ pc = "getPage"
    /\ pc' = "getTextContent"
    /\ UNCHANGED <<others, params, numPages, pageNum, locals, results, promise>>

\* a faulty variant of GetPageFails, which catches the error, skips the
\* page and goes on
GetPageFailsSkipsPage ==
    /\ pc = "getPage"
    /\ pageNum' = pageNum + 1
    /\ pc' = IF pageNum + 1 <= numPages THEN "getPage" ELSE "resolved"
    /\ promise' = IF pageNum + 1 <= numPages THEN promise ELSE Fulfilled(results)
    /\ UNCHANGED <<others, params, numPages, locals, results>>

GetPageFails ==
    /\ pc = "getPage"
    /\ pc' = "rejected"
    /\ promise' = Rejected("getPage", pageNum)
    /\ UNCHANGED <<others, params, numPages, pageNum, locals, results>>

GetTextContentFails ==
    /\ pc = "getTextContent"
    /\ pc' = "rejected"
    /\ promise' = Rejected("getTextContent", pageNum)
    /\ UNCHANGED <<others, params, numPages, pageNum, locals, results>>

\* the assignments of one iteration of the loop body, given its locals
PushPage(its, sps, tol, gl, lns, lbs, chs, pw, cols, ord) ==
    /\ items' = its
    /\ spans' = sps
    /\ yTolerance' = tol
    /\ greedy' = gl
    /\ lines' = lns
    /\ lineBlocks' = lbs
    /\ chunks' = chs
    /\ pageWidth' = pw
    /\ clusters' = IF Len(lbs) <= 1 THEN <<>> ELSE Clusters(lbs, pw)
    /\ columns' = cols
    /\ ordered' = ord
    /\ results' = Append(results,
                     [page |-> pageNum,
                      text |-> PageText(lbs, ord, maxCharsPerPage),
                      chunks |-> chs,
                      stats |-> PageStats(lbs, cols)])

OrderPage(its, sps, tol, gl, lns, lbs, pw, cols) ==
    \E ord \in OrderedOutcomes(lbs, cols) :
        PushPage(its, sps, tol, gl, lns, lbs, BuildChunks(lbs), pw, cols, ord)

ResolvePage(its, sps, tol, gl, lns, lbs, pw) ==
    OrderPage(its, sps, tol, gl, lns, lbs, pw, detectColumns(lbs, pw))

SplitPage(its, sps, tol, gl) ==
    \E lns \in SortedLineOutcomes(gl, tol) :
        ResolvePage(its, sps, tol, gl, lns, BuildLineBlocks(lns), estimatePageWidth(sps))

GroupPage(its, sps, tol) == SplitPage(its, sps, tol, GreedyLines(sps, tol))

\* a faulty variant of ProcessPage, which pushes no result for a page
\* without text
ProcessPageDropsEmpty ==
    /\ pc = "getTextContent"
    /\ \E its \in PageItems(input) :
          IF NormalizedSpans(its) = <<>>
          THEN UNCHANGED <<locals, results>>
          ELSE \E sps \in SortedSpanOutcomes(its) :
                  GroupPage(its, sps, dynamicYTolerance(sps))
    /\ pageNum' = pageNum + 1
    /\ pc' = IF pageNum + 1 <= numPages THEN "getPage" ELSE "resolved"
    /\ promise' = IF pageNum + 1 <= numPages THEN promise ELSE Fulfilled(results')
    /\ UNCHANGED <<others, params, numPages>>

\* await page.getTextContent() resolves with its; the loop body runs to the
\* push of the page's result, and the loop either awaits the next page or
\* returns results
ProcessPage ==
    /\ pc = "getTextContent"
    /\ \E its \in PageItems(input) :
       \E sps \in SortedSpanOutcomes(its) :
          GroupPage(its, sps, dynamicYTolerance(sps))
    /\ pageNum' = pageNum + 1
    /\ pc' = IF pageNum + 1 <= numPages THEN "getPage" ELSE "resolved"
    /\ promise' = IF pageNum + 1 <= numPages THEN promise ELSE Fulfilled(results')
    /\ UNCHANGED <<others, params, numPages>>

Next ==
    \/ LoadDocument
    \/ LoadFails
    \/ GetPage
    \/ GetPageFails
    \/ GetTextContentFails
    \/ ProcessPage

Init == InitWith("lines", 1)
InitClassify == InitWith("classify", 1)
InitColumns == InitWith("columns", 1)
InitJoin == InitWith("join", 1)
InitBBox == InitWith("bbox", 1)
MaxPages == 3
InitPages == InitWith("pages", MaxPages)
InitTies == InitWith("ties", 1)
InitBlank == InitWith("blank", 1)
InitGreedy == InitWith("greedy", 1)
InitOrder == InitWith("order", 1)
InitGutter == InitWith("gutter", 1)
InitHeights == InitWith("heights", 1)

\* the values of maxCharsPerPage of the calls made
Budgets == {-1, 0, 1, 3, 4, 4000}
InitBudget == \E n \in Budgets : InitCall("blank", 1, n)

Spec == Init /\ [][Next]_vars
SpecClassify == InitClassify /\ [][Next]_vars
SpecColumns == InitColumns /\ [][Next]_vars
SpecJoin == InitJoin /\ [][Next]_vars
SpecBBox == InitBBox /\ [][Next]_vars
SpecPages == InitPages /\ [][Next]_vars
SpecTies == InitTies /\ [][Next]_vars
SpecBlank == InitBlank /\ [][Next]_vars
SpecGreedy == InitGreedy /\ [][Next]_vars
SpecOrder == InitOrder /\ [][Next]_vars
SpecGutter == InitGutter /\ [][Next]_vars
SpecHeights == InitHeights /\ [][Next]_vars
SpecBudget == InitBudget /\ [][Next]_vars

(***************************************************************************)
(* Theme registry and auto accent (themes.js).  Colors are hex strings     *)
(* without '#'; of a theme only colors.accent and colors.background are    *)
(* modelled.                                                               *)
(***************************************************************************)
THEMES ==
    [azure |-> [accent |-> "FFC107", background |-> "FFFFFF"],
     midnight |-> [accent |-> "C084FC", background |-> "0F172A"],
     slate |-> [accent |-> "3B82F6", background |-> "F8FAFC"],
     coral |-> [accent |-> "F97316", background |-> "FFF7ED"],
     emerald |-> [accent |-> "10B981", background |-> "F0FDF4"],
     minimal |-> [accent |-> "6B7280", background |-> "FFFFFF"]]

listThemes == DOMAIN THEMES

\* an absent option or property (undefined)
Absent == "undefined"

\* String(name).toLowerCase(), for the names that occur
ToLowerCase(name) == IF name = "Midnight" THEN "midnight" ELSE name

getTheme(name) ==
    IF name # Absent /\ ToLowerCase(name) \in DOMAIN THEMES
    THEN [name |-> ToLowerCase(name), colors |-> THEMES[ToLowerCase(name)]]
    ELSE [name |-> "azure", colors |-> THEMES.azure]

slideOptionsForTheme(theme) == [bkgd |-> theme.colors.background]

accentColor(theme) == theme.colors.accent

\* the grays mix() gives between black and white in steps of 1/20, and
\* their relative luminance in millionths (per WCAG, rounded)
GrayHex ==
    <<"000000", "0D0D0D", "1A1A1A", "262626", "333333", "404040", "4D4D4D",
      "595959", "666666", "737373", "808080", "8C8C8C", "999999", "A6A6A6",
      "B3B3B3", "BFBFBF", "CCCCCC", "D9D9D9", "E6E6E6", "F2F2F2", "FFFFFF">>

GrayLuminance ==
    <<0, 4025, 10330, 19382, 33105, 51269, 74214, 99899, 132868, 171441,
      215861, 262251, 318547, 381326, 450786, 520996, 603827, 693872, 791298,
      887923, 1000000>>

\* relativeLuminanceHex in millionths, for the grays and the backgrounds
relativeLuminanceHex(hex) ==
    CASE hex = "0F172A" -> 8815
      [] hex = "F8FAFC" -> 953559
      [] hex = "FFF7ED" -> 938960
      [] hex = "F0FDF4" -> 953075
      [] OTHER -> GrayLuminance[CHOOSE k \in 1..21 : GrayHex[k] = hex]

\* contrastRatio(hex1, hex2) >= minRatio
ContrastAtLeast(hex1, hex2, minRatio) ==
    LET L1 == relativeLuminanceHex(hex1)
        L2 == relativeLuminanceHex(hex2)
        lighter == IF L1 > L2 THEN L1 ELSE L2
        darker == IF L1 > L2 THEN L2 ELSE L1
    IN  lighter + 50000 >= minRatio * (darker + 50000)

isLight(hex) == relativeLuminanceHex(hex) > 500000

MAX_STEPS == 20

\* mix(color, target, i / MAX_STEPS) for color and target black or white
mix(color, target, i) ==
    IF color = target THEN color
    ELSE IF target = "FFFFFF" THEN GrayHex[i + 1] ELSE GrayHex[MAX_STEPS + 1 - i]

adjustForContrast(color, bg, minRatio) ==
    LET target == IF isLight(bg) THEN "000000" ELSE "FFFFFF"
        enough == {i \in 1..MAX_STEPS : ContrastAtLeast(mix(color, target, i), bg, minRatio)}
    IN  IF ContrastAtLeast(color, bg, minRatio) \/ enough = {} THEN color
        ELSE mix(color, target, CHOOSE i \in enough : \A j \in enough : i <= j)

\* images: one that fails to load or is fully transparent has no dominant
\* color (null), the others are of one color, black or white
Images == {"broken", "000000", "FFFFFF"}

dominantColorFromImage(img) == IF img = "broken" THEN Absent ELSE img

minContrastBg == 3

WithAccent(theme, accent) ==
    [theme EXCEPT !.colors = [theme.colors EXCEPT !.accent = accent]]

AccentFor(theme, adjusted) ==
    WithAccent(theme, IF ContrastAtLeast(adjusted, theme.colors.background, minContrastBg)
                      THEN adjusted ELSE theme.colors.accent)

deriveThemeWithAutoAccent(baseTheme, candidateImages) ==
    IF candidateImages = <<>> \/ dominantColorFromImage(candidateImages[1]) = Absent
    THEN baseTheme
    ELSE AccentFor(baseTheme,
                   adjustForContrast(dominantColorFromImage(candidateImages[1]),
                                     baseTheme.colors.background, minContrastBg))

(***************************************************************************)
(* generatePptxFromOutline (ppt.js) as a state machine.  deck holds the    *)
(* arguments (outline: theme and, per slide, its imagePages; imagesByPage; *)
(* options), the calls made of deriveThemeWithAutoAccent, the theme in     *)
(* use, and what the pptx object has captured: per slide its options, the  *)
(* template and the color of the accent line its template draws.  Every    *)
(* slide of an outline has a title and bullets; options.autoAccent is      *)
(* "true", "false" or absent.                                              *)
(***************************************************************************)
Pages == {1, 2}

\* the image of page p in imagesByPage, if any
ImageAt(imagesByPage, p) == IF p \in DOMAIN imagesByPage THEN imagesByPage[p] ELSE Absent

pickFirstImage(slideDef, imagesByPage) ==
    LET found == SelectSeq(slideDef.imagePages, LAMBDA p : ImageAt(imagesByPage, p) # Absent)
    IN  IF found = <<>> THEN Absent ELSE imagesByPage[found[1]]

CandidateImages(outline, imagesByPage) ==
    SelectSeq([k \in 1..Len(outline.slides) |-> pickFirstImage(outline.slides[k], imagesByPage)],
              LAMBDA img : img # Absent)

EnforcedThemeName(outline, options) ==
    IF options.themeName # Absent THEN options.themeName
    ELSE IF outline.theme # Absent THEN outline.theme ELSE "azure"

\* hasImage && bulletsLen > 0, or !hasImage && bulletsLen > 0 && title
inferTemplateKey(slideDef, imagesByPage) ==
    IF pickFirstImage(slideDef, imagesByPage) # Absent THEN "IMAGE_RIGHT" ELSE "TITLE_BULLETS"

TitleSlide(theme) == [opts |-> slideOptionsForTheme(theme), template |-> "deckTitle"]

ContentSlide(slideDef, imagesByPage, theme) ==
    [opts |-> slideOptionsForTheme(theme),
     template |-> inferTemplateKey(slideDef, imagesByPage),
     accentLine |-> accentColor(theme)]

SlidesFor(outline, imagesByPage, theme) ==
    <<TitleSlide(theme)>> \o
    [k \in 1..Len(outline.slides) |-> ContentSlide(outline.slides[k], imagesByPage, theme)]

Outlines ==
    {[theme |-> t, slides |-> sl] :
        t \in {Absent, "coral"},
        sl \in {<<>>, <<[imagePages |-> <<>>]>>, <<[imagePages |-> <<1>>]>>,
                <<[imagePages |-> <<>>], [imagePages |-> <<2, 1>>]>>}}

ImageMaps == {<<>>} \cup [{1} -> Images] \cup {[p \in Pages |-> IF p = 1 THEN "FFFFFF" ELSE "000000"]}

Options ==
    {[themeName |-> n, autoAccent |-> a] :
        n \in listThemes \cup {Absent, "Midnight", "unknown"},
        a \in {Absent, "true", "false"}}

\* no call of pdfToText is under way
NoPdfCall ==
    /\ pc = "start"
    /\ input = "pages" /\ maxPages = 1 /\ numPages = 0 /\ pageNum = 0
    /\ maxCharsPerPage = 4000 /\ items = <<>> /\ spans = <<>> /\ yTolerance = Zero
    /\ greedy = <<>> /\ lines = <<>> /\ lineBlocks = <<>> /\ chunks = <<>>
    /\ pageWidth = Zero /\ clusters = <<>> /\ columns = <<>> /\ ordered = <<>>
    /\ results = <<>>
    /\ promise = [state |-> "pending"]

InitDeck ==
    /\ NoPdfCall
    /\ norm = Idle /\ http = Idle /\ app = Idle
    /\ \E o \in Outlines, m \in ImageMaps, opt \in Options :
          deck = [pc |-> "call", outline |-> o, imagesByPage |-> m, options |-> opt,
                  derived |-> 0, theme |-> Absent, slides |-> <<>>]

pdfVars == <<pc, params, numPages, pageNum, locals, results, promise>>

notDeck == <<pdfVars, norm, http, app>>

\* if (!outline || ... || outline.slides.length === 0) throw
GenerateThrows ==
    /\ deck.pc = "call"
    /\ deck.outline.slides = <<>>
    /\ deck' = [deck EXCEPT !.pc = "thrown"]
    /\ UNCHANGED notDeck

\* getTheme(enforcedThemeName), then await deriveThemeWithAutoAccent(...)
GenerateStarts ==
    /\ deck.pc = "call"
    /\ deck.outline.slides # <<>>
    /\ deck' = [deck EXCEPT !.pc = "derive", !.derived = @ + 1,
                            !.theme = getTheme(EnforcedThemeName(deck.outline, deck.options))]
    /\ UNCHANGED notDeck

\* the derived theme arrives; the title slide and one slide per outline
\* slide are added, then await pptx.writeFile
BuildSlides ==
    /\ deck.pc = "derive"
    /\ LET theme == deriveThemeWithAutoAccent(deck.theme,
                        CandidateImages(deck.outline, deck.imagesByPage))
       IN  deck' = [deck EXCEPT !.pc = "writeFile", !.theme = theme,
                        !.slides = SlidesFor(deck.outline, deck.imagesByPage, theme)]
    /\ UNCHANGED notDeck

WriteFile ==
    /\ deck.pc = "writeFile"
    /\ deck' = [deck EXCEPT !.pc = "done"]
    /\ UNCHANGED notDeck

\* catch (_err): await pptx.write("blob")
WriteFileFails ==
    /\ deck.pc = "writeFile"
    /\ deck' = [deck EXCEPT !.pc = "writeBlob"]
    /\ UNCHANGED notDeck

WriteBlob ==
    /\ deck.pc = "writeBlob"
    /\ deck' = [deck EXCEPT !.pc = "done"]
    /\ UNCHANGED notDeck

WriteBlobFails ==
    /\ deck.pc = "writeBlob"
    /\ deck' = [deck EXCEPT !.pc = "thrown"]
    /\ UNCHANGED notDeck

NextDeck ==
    \/ GenerateThrows
    \/ GenerateStarts
    \/ BuildSlides
    \/ WriteFile
    \/ WriteFileFails
    \/ WriteBlob
    \/ WriteBlobFails

SpecDeck == InitDeck /\ [][NextDeck]_vars

(***************************************************************************)
(* openaiClient.js: outline normalization.  A JavaScript value is a record *)
(* tagged with its type: a string holds its characters (one per element;   *)
(* "NL" and "TAB" are the newline and the tab), a number is an integer or  *)
(* a half (a rational as above) or NaN, an array holds its elements and an *)
(* object its own properties.                                              *)
(***************************************************************************)
Undefined == [t |-> "undefined"]
Null == [t |-> "null"]
NaN == [t |-> "NaN"]
Bool(b) == [t |-> "boolean", b |-> b]
Str(s) == [t |-> "string", s |-> s]
Num(n) == [t |-> "number", n |-> n]
Whole(i) == Num(R(i))
Arr(a) == [t |-> "array", a |-> a]
Obj(o) == [t |-> "object", o |-> o]
NoProps == <<>>

\* value.key, for an own property of an object (undefined otherwise)
Get(v, k) == IF v.t = "object" /\ k \in DOMAIN v.o THEN v.o[k] ELSE Undefined

IsArray(v) == v.t = "array"

Truthy(v) ==
    CASE v.t \in {"undefined", "null", "NaN"} -> FALSE
      [] v.t = "boolean" -> v.b
      [] v.t = "number" -> v.n # Zero
      [] v.t = "string" -> v.s # <<>>
      [] OTHER -> TRUE

\* a || b
Either(a, b) == IF Truthy(a) THEN a ELSE b

DigitChars == <<"0", "1", "2", "3", "4", "5", "6", "7", "8", "9">>

RECURSIVE NatToString(_)
NatToString(n) ==
    IF n < 10 THEN <<DigitChars[n + 1]>>
    ELSE NatToString(n \div 10) \o <<DigitChars[(n % 10) + 1]>>

\* String(n) for an integer or a half
NumberToString(n) ==
    (IF RLt(n, Zero) THEN <<"-">> ELSE <<>>)
        \o NatToString(IAbs(n[1]) \div n[2])
        \o (IF n[2] = 1 THEN <<>> ELSE <<".", "5">>)

RECURSIVE JoinWith(_, _)
JoinWith(parts, sep) ==
    IF parts = <<>> THEN <<>>
    ELSE IF Len(parts) = 1 THEN parts[1]
    ELSE parts[1] \o sep \o JoinWith(Tail(parts), sep)

\* String(val)
RECURSIVE StringOf(_)
StringOf(v) ==
    CASE v.t = "string" -> v.s
      [] v.t = "number" -> NumberToString(v.n)
      [] v.t = "NaN" -> <<"N", "a", "N">>
      [] v.t = "boolean" -> IF v.b THEN <<"t", "r", "u", "e">>
                            ELSE <<"f", "a", "l", "s", "e">>
      [] v.t = "null" -> <<"n", "u", "l", "l">>
      [] v.t = "undefined" -> <<"u", "n", "d", "e", "f", "i", "n", "e", "d">>
      [] v.t = "array" ->
            JoinWith([k \in 1..Len(v.a) |->
                        IF v.a[k].t \in {"null", "undefined"} THEN <<>>
                        ELSE StringOf(v.a[k])], <<",">>)
      [] OTHER -> <<"[", "o", "b", "j", "e", "c", "t", " ", "O", "b", "j",
              "e", "c", "t", "]">>

UpperCase == <<"A", "B", "C", "D", "E", "F", "G", "H", "I", "J", "K", "L",
        "M", "N", "O", "P", "Q", "R", "S", "T", "U", "V", "W", "X", "Y", "Z">>
LowerCase == <<"a", "b", "c", "d", "e", "f", "g", "h", "i", "j", "k", "l",
        "m", "n", "o", "p", "q", "r", "s", "t", "u", "v", "w", "x", "y", "z">>

LowerChar(c) ==
    IF \E k \in 1..Len(UpperCase) : UpperCase[k] = c
    THEN LowerCase[CHOOSE k \in 1..Len(UpperCase) : UpperCase[k] = c]
    ELSE c

\* String.prototype.toLowerCase, on characters
Lower(t) == [k \in 1..Len(t) |-> LowerChar(t[k])]

\* t.slice(0, n - 1) followed by the ellipsis, which is one character
Ellipsize(t, n) == Append(SubSeq(t, 1, n - 1), "ELLIPSIS")

\* a faulty variant of coerceText, which does not cut the text
coerceTextUncut(t, minLen, maxLen) ==
    IF Len(Trim(CollapseSpaces(t))) < minLen THEN <<>> ELSE Trim(CollapseSpaces(t))

\* coerceString once the value is a string
coerceText(t, minLen, maxLen) ==
    IF Len(Trim(CollapseSpaces(t))) < minLen THEN <<>>
    ELSE IF Len(Trim(CollapseSpaces(t))) > maxLen
         THEN Ellipsize(Trim(CollapseSpaces(t)), maxLen)
         ELSE Trim(CollapseSpaces(t))

coerceString(val, minLen, maxLen) ==
    coerceText(IF val.t = "string" THEN val.s
               ELSE IF val.t \in {"null", "undefined"} THEN <<>>
               ELSE StringOf(val),
               minLen, maxLen)

DEFAULT_THEME == <<"a", "z", "u", "r", "e">>
MAX_SLIDES == 25
MAX_BULLETS_PER_SLIDE == 8
MAX_BULLET_LEN == 180
MAX_TITLE_LEN == 120

sanitizeTheme(name) ==
    IF ~Truthy(name) THEN <<>> ELSE Lower(Trim(StringOf(name)))

ALLOWED_TEMPLATES ==
    {<<"t", "i", "t", "l", "e">>, <<"t", "i", "t", "l", "e", "-", "b", "u",
            "l", "l", "e", "t", "s">>, <<"i", "m", "a", "g", "e", "-", "r",
                    "i", "g", "h", "t">>, <<"i", "m", "a", "g", "e", "-",
                            "l", "e", "f", "t">>,
     <<"t", "w", "o", "-", "c", "o", "l", "u", "m", "n">>, <<"q", "u", "o",
             "t", "e">>, <<"c", "o", "m", "p", "a", "r", "i", "s", "o",
                     "n">>, <<"s", "e", "c", "t", "i", "o", "n", "-", "d",
                             "i", "v", "i", "d", "e", "r">>,
     <<"c", "h", "a", "r", "t">>, <<"i", "m", "a", "g", "e", "-", "c", "a",
             "r", "d">>, <<"b", "u", "l", "l", "e", "t", "s">>}

\* the alias map of normalizeTemplateName: <<key, value>>
TemplateAliases ==
    {<<<<"t", "i", "t", "l", "e">>, <<"t", "i", "t", "l", "e">>>>,
     <<<<"t", "i", "t", "l", "e", "-", "o", "n", "l", "y">>, <<"t", "i", "t",
             "l", "e">>>>,
     <<<<"t", "i", "t", "l", "e", "_", "b", "u", "l", "l", "e", "t", "s">>,
             <<"t", "i", "t", "l", "e", "-", "b", "u", "l", "l", "e", "t",
                     "s">>>>,
     <<<<"t", "i", "t", "l", "e", "-", "b", "u", "l", "l", "e", "t", "s">>,
             <<"t", "i", "t", "l", "e", "-", "b", "u", "l", "l", "e", "t",
                     "s">>>>,
     <<<<"b", "u", "l", "l", "e", "t", "s">>, <<"b", "u", "l", "l", "e", "t",
             "s">>>>,
     <<<<"i", "m", "a", "g", "e">>, <<"i", "m", "a", "g", "e", "-", "c", "a",
             "r", "d">>>>,
     <<<<"i", "m", "a", "g", "e", "-", "c", "a", "r", "d">>, <<"i", "m", "a",
             "g", "e", "-", "c", "a", "r", "d">>>>,
     <<<<"i", "m", "a", "g", "e", "_", "l", "e", "f", "t">>, <<"i", "m", "a",
             "g", "e", "-", "l", "e", "f", "t">>>>,
     <<<<"i", "m", "a", "g", "e", "-", "l", "e", "f", "t">>, <<"i", "m", "a",
             "g", "e", "-", "l", "e", "f", "t">>>>,
     <<<<"i", "m", "a", "g", "e", "_", "r", "i", "g", "h", "t">>, <<"i", "m",
             "a", "g", "e", "-", "r", "i", "g", "h", "t">>>>,
     <<<<"i", "m", "a", "g", "e", "-", "r", "i", "g", "h", "t">>, <<"i", "m",
             "a", "g", "e", "-", "r", "i", "g", "h", "t">>>>,
     <<<<"t", "w", "o", "-", "c", "o", "l", "u", "m", "n">>, <<"t", "w", "o",
             "-", "c", "o", "l", "u", "m", "n">>>>,
     <<<<"t", "w", "o", "_", "c", "o", "l", "u", "m", "n">>, <<"t", "w", "o",
             "-", "c", "o", "l", "u", "m", "n">>>>,
     <<<<"f", "l", "o", "w", "c", "h", "a", "r", "t">>, <<"f", "l", "o", "w",
             "c", "h", "a", "r", "t">>>>,
     <<<<"q", "u", "o", "t", "e">>, <<"q", "u", "o", "t", "e">>>>,
     <<<<"c", "o", "m", "p", "a", "r", "i", "s", "o", "n">>, <<"c", "o", "m",
             "p", "a", "r", "i", "s", "o", "n">>>>,
     <<<<"s", "e", "c", "t", "i", "o", "n", "-", "d", "i", "v", "i", "d",
             "e", "r">>, <<"s", "e", "c", "t", "i", "o", "n", "-", "d", "i",
                     "v", "i", "d", "e", "r">>>>,
     <<<<"s", "e", "c", "t", "i", "o", "n", "_", "d", "i", "v", "i", "d",
             "e", "r">>, <<"s", "e", "c", "t", "i", "o", "n", "-", "d", "i",
                     "v", "i", "d", "e", "r">>>>,
     <<<<"c", "h", "a", "r", "t">>, <<"c", "h", "a", "r", "t">>>>}

\* map[raw] || raw
Mapped(raw) ==
    IF \E e \in TemplateAliases : e[1] = raw
    THEN (CHOOSE e \in TemplateAliases : e[1] = raw)[2]
    ELSE raw

\* the positions at which word occurs in t
Occurrences(t, word) ==
    {i \in 1..(Len(t) - Len(word) + 1) : SubSeq(t, i,
            i + Len(word) - 1) = word}

\* /word/.test(t)
Includes(t, word) == Occurrences(t, word) # {}

\* /first.*second/.test(t): the dot matches no line terminator
IncludesThen(t, first, second) ==
    \E i \in Occurrences(t, first), j \in Occurrences(t, second) :
        /\ j >= i + Len(first)
        /\ \A k \in (i + Len(first))..(j - 1) : t[k] # "NL"

Heuristic(raw) ==
    IF Includes(raw, <<"i", "m", "a", "g", "e">>) THEN <<"i", "m", "a", "g",
            "e", "-", "c", "a", "r", "d">>
    ELSE IF IncludesThen(raw, <<"t", "w", "o">>, <<"c", "o",
            "l">>) THEN <<"t", "w", "o", "-", "c", "o", "l", "u", "m", "n">>
    ELSE IF IncludesThen(raw, <<"t", "i", "t", "l", "e">>, <<"b", "u", "l",
            "l", "e", "t">>) THEN <<"t", "i", "t", "l", "e", "-", "b", "u",
                    "l", "l", "e", "t", "s">>
    ELSE IF Includes(raw, <<"t", "i", "t", "l", "e">>) THEN <<"t", "i", "t",
            "l", "e">>
    ELSE <<"t", "i", "t", "l", "e", "-", "b", "u", "l", "l", "e", "t", "s">>

TemplateFor(raw) ==
    IF Mapped(raw) \in ALLOWED_TEMPLATES THEN Mapped(raw) ELSE Heuristic(raw)

normalizeTemplateName(key) ==
    TemplateFor(Lower(Trim(StringOf(Either(key, Str(<<>>))))))

DigitValue(c) == (CHOOSE k \in 1..Len(DigitChars) : DigitChars[k] = c) - 1

RECURSIVE DigitsValue(_)
DigitsValue(t) ==
    IF t = <<>> THEN 0
    ELSE 10 * DigitsValue(SubSeq(t, 1, Len(t) - 1)) + DigitValue(t[Len(t)])

Unsigned(t) ==
    IF LeadingDigits(t) = 0 THEN NaN
    ELSE Whole(DigitsValue(SubSeq(t, 1, LeadingDigits(t))))

Negated(v) == IF v.t = "NaN" THEN NaN ELSE Num(RSub(Zero, v.n))

ParseSigned(t) ==
    IF StartsWith(t, "-") THEN Negated(Unsigned(Tail(t)))
    ELSE IF StartsWith(t, "+") THEN Unsigned(Tail(t))
    ELSE Unsigned(t)

\* parseInt(n, 10)
parseInt(v) == ParseSigned(TrimLeft(StringOf(v)))

ElementsOf(v) == IF IsArray(v) THEN v.a ELSE <<>>

\* Array.from(new Set(s)): the first occurrence of each element, in order
Distinct(s) ==
    KeepAt(s, SelectSeq(Indices(s),
            LAMBDA i : \A j \in 1..(i - 1) : s[j] # s[i]))

ImagePagesOf(v) ==
    Distinct(SelectSeq([k \in 1..Len(ElementsOf(v)) |-> parseInt(ElementsOf(v)[k])],
                       LAMBDA n : n.t = "number" /\ RGt(n.n, Zero)))

\* map(coerceString(., 0, maxLen)).filter(Boolean).slice(0, maxCount)
CoercedList(v, maxLen, maxCount) ==
    Slice(SelectSeq([k \in 1..Len(ElementsOf(v)) |->
                        coerceString(ElementsOf(v)[k], 0, maxLen)],
                    LAMBDA t : t # <<>>),
          maxCount)

BulletsOf(v) == CoercedList(v, MAX_BULLET_LEN, MAX_BULLETS_PER_SLIDE)

\* x && typeof x === "object"
IsObjectLike(v) == v.t \in {"object", "array"}

\* flow.steps as normalizeSlide leaves it
FlowSteps(steps) ==
    IF IsArray(steps)
    THEN Arr([k \in 1..Len(CoercedList(steps, 120, 10)) |->
                Str(CoercedList(steps, 120, 10)[k])])
    ELSE steps

\* flow?.steps?.length
HasLength(v) ==
    CASE v.t = "array" -> v.a # <<>>
      [] v.t = "string" -> v.s # <<>>
      [] OTHER -> Truthy(Get(v, "length"))

SideOf(v) ==
    [title |-> coerceString(Get(v, "title"), 0, 80),
     bullets |-> BulletsOf(Get(v, "bullets"))]

\* the property k of the result, if it is set
Prop(k, set, v) == IF set THEN k :> v ELSE <<>>

SlideTitle(slide, index) ==
    IF coerceString(Get(slide, "title"), 0, MAX_TITLE_LEN) # <<>>
    THEN coerceString(Get(slide, "title"), 0, MAX_TITLE_LEN)
    ELSE <<"S", "l", "i", "d", "e", " ">> \o NatToString(index + 1)

normalizeSlide(slide, index) ==
    [template |-> normalizeTemplateName(Get(slide, "template")),
     title |-> SlideTitle(slide, index)]
    @@ Prop("subtitle", coerceString(Get(slide, "subtitle"), 0, 120) # <<>>,
            coerceString(Get(slide, "subtitle"), 0, 120))
    @@ Prop("bullets", BulletsOf(Get(slide, "bullets")) # <<>>,
            BulletsOf(Get(slide, "bullets")))
    @@ Prop("imagePages", ImagePagesOf(Get(slide, "imagePages")) # <<>>,
            ImagePagesOf(Get(slide, "imagePages")))
    @@ Prop("notes", coerceString(Get(slide, "notes"), 0, 600) # <<>>,
            coerceString(Get(slide, "notes"), 0, 600))
    @@ Prop("flow",
            /\ IsObjectLike(Get(slide, "flow"))
            /\ HasLength(FlowSteps(Get(Get(slide, "flow"), "steps"))),
            [steps |-> FlowSteps(Get(Get(slide, "flow"), "steps"))])
    @@ Prop("left", IsObjectLike(Get(slide, "left")), SideOf(Get(slide,
            "left")))
    @@ Prop("right", IsObjectLike(Get(slide, "right")), SideOf(Get(slide,
            "right")))

\* the pieces of t between the runs (<<first, last>> positions) cut out of it
RECURSIVE CutAt(_, _, _)
CutAt(t, runs, from) ==
    IF runs = {} THEN <<SubSeq(t, from, Len(t))>>
    ELSE <<SubSeq(t, from,
            (CHOOSE r \in runs : \A q \in runs : r[1] <= q[1])[1] - 1)>>
         \o CutAt(t,
                 runs \ {CHOOSE r \in runs : \A q \in runs : r[1] <= q[1]},
                  (CHOOSE r \in runs : \A q \in runs : r[1] <= q[1])[2] + 1)

\* the matches of /\n+/g
NewlineRuns(t) ==
    {r \in (1..Len(t)) \X (1..Len(t)) :
        /\ r[1] <= r[2]
        /\ \A k \in r[1]..r[2] : t[k] = "NL"
        /\ r[1] = 1 \/ t[r[1] - 1] # "NL"
        /\ r[2] = Len(t) \/ t[r[2] + 1] # "NL"}

\* the matches of /(?<=[.!?])\s+(?=[A-Z(])/g
SentenceBreaks(t) ==
    {r \in (2..Len(t)) \X (2..Len(t)) :
        /\ r[1] <= r[2]
        /\ \A k \in r[1]..r[2] : IsSpace(t[k])
        /\ t[r[1] - 1] \in {".", "!", "?"}
        /\ r[2] < Len(t)
        /\ t[r[2] + 1] = "(" \/ \E k \in 1..Len(UpperCase) : UpperCase[k] = t[r[2] + 1]}

SentencesOf(t) ==
    Flatten([k \in 1..Len(CutAt(t, NewlineRuns(t), 1)) |->
                CutAt(CutAt(t, NewlineRuns(t), 1)[k],
                      SentenceBreaks(CutAt(t, NewlineRuns(t), 1)[k]), 1)])

buildBulletsFromText(text, maxCount) ==
    IF ~Truthy(text) THEN <<>>
    ELSE Map(Slice(SelectSeq(Map(SentencesOf(StringOf(text)),
                                 LAMBDA s : Trim(CollapseSpaces(s))),
                             LAMBDA s : Len(s) >= 8),
                   maxCount),
             LAMBDA s : coerceText(s, 0, MAX_BULLET_LEN))

\* (p.text || "").trim()
HasText(p) == Trim(StringOf(Either(Get(p, "text"), Str(<<>>)))) # <<>>

buildBulletsFromPages(pages, maxCount) ==
    IF \A k \in 1..Len(ElementsOf(pages)) : ~HasText(ElementsOf(pages)[k]) THEN <<>>
    ELSE buildBulletsFromText(
            Get(ElementsOf(pages)[CHOOSE k \in 1..Len(ElementsOf(pages)) :
                    /\ HasText(ElementsOf(pages)[k])
                    /\ \A j \in 1..(k - 1) : ~HasText(ElementsOf(pages)[j])],
                            "text"),
            maxCount)

Strings(texts) == Arr([k \in 1..Len(texts) |-> Str(texts[k])])

FallbackTemplate(p) ==
    IF Truthy(Either(Get(p, "title"), Get(p, "caption"))) THEN <<"i", "m",
            "a", "g", "e", "-", "c", "a", "r", "d">>
    ELSE IF buildBulletsFromText(Either(Get(p, "text"), Str(<<>>)), 5) # <<>>
         THEN <<"t", "i", "t", "l", "e", "-", "b", "u", "l", "l", "e", "t",
                 "s">>
         ELSE <<"i", "m", "a", "g", "e", "-", "c", "a", "r", "d">>

FallbackTitle(p) ==
    IF coerceString(Get(p, "title"), 0, 80) # <<>>
    THEN coerceString(Get(p, "title"), 0, 80)
    ELSE <<"P", "a", "g", "e", " ">> \o StringOf(Get(p, "page"))

FallbackSlide(p) ==
    Obj([template |-> Str(FallbackTemplate(p)),
         title |-> Str(FallbackTitle(p)),
         bullets |-> Strings(buildBulletsFromText(Either(Get(p, "text"),
                 Str(<<>>)), 5)),
         imagePages |-> Arr(<<Get(p, "page")>>),
         notes |-> Str(coerceString(Get(p, "caption"), 0, 150))])

\* included.length ? included : safePages.slice(0, 8)
FallbackSource(safePages) ==
    IF SelectSeq(safePages, LAMBDA p : Truthy(Get(p, "include"))) # <<>>
    THEN SelectSeq(safePages, LAMBDA p : Truthy(Get(p, "include")))
    ELSE Slice(safePages, 8)

fallbackOutlineFromPages(pages) ==
    IF FallbackSource(ElementsOf(pages)) = <<>>
    THEN <<Obj([template |-> Str(<<"t", "i", "t", "l", "e", "-", "b", "u",
            "l", "l", "e", "t", "s">>), title |-> Str(<<"O", "v", "e", "r",
                    "v", "i", "e", "w">>),
                bullets |-> Arr(<<>>)])>>
    ELSE Slice(Map(FallbackSource(ElementsOf(pages)), FallbackSlide), 12)

\* rawSlides.length ? rawSlides : existingSlides, or the fallback plan
CandidateSlides(outline, pages, fallbackExisting) ==
    IF ElementsOf(Get(outline, "slides")) # <<>> THEN ElementsOf(Get(outline,
            "slides"))
    ELSE IF ElementsOf(Get(fallbackExisting, "slides")) # <<>>
         THEN ElementsOf(Get(fallbackExisting, "slides"))
         ELSE fallbackOutlineFromPages(pages)

\* the loop over slides: normalizeSlide returns an object for every slide
NormalizedSlides(slides) ==
    [k \in 1..Len(Slice(slides, MAX_SLIDES)) |->
        normalizeSlide(Either(slides[k], Obj(NoProps)), k - 1)]

SlidesOrOverview(outSlides, pages) ==
    IF outSlides = <<>>
    THEN <<[template |-> <<"t", "i", "t", "l", "e", "-", "b", "u", "l", "l",
            "e", "t", "s">>, title |-> <<"O", "v", "e", "r", "v", "i", "e",
                    "w">>,
            bullets |-> buildBulletsFromPages(pages, 5)]>>
    ELSE outSlides

\* the theme is a string, or whatever value defaultTheme is
BaseTheme(outline, defaultTheme, fallbackExisting) ==
    IF sanitizeTheme(Get(outline, "theme")) # <<>>
    THEN Str(sanitizeTheme(Get(outline, "theme")))
    ELSE IF sanitizeTheme(Get(fallbackExisting, "theme")) # <<>>
         THEN Str(sanitizeTheme(Get(fallbackExisting, "theme")))
         ELSE defaultTheme

normalizeOutline(outline, pages, defaultTheme, fallbackExisting) ==
    [theme |-> BaseTheme(outline, defaultTheme, fallbackExisting),
     title |-> coerceString(Either(Either(Get(outline, "title"),
                                          Get(fallbackExisting, "title")),
                                   Str(<<"G", "e", "n", "e", "r", "a", "t",
                                           "e", "d", " ", "P", "r", "e", "s",
                                                   "e", "n", "t", "a", "t",
                                                           "i", "o", "n">>)),
                            0, MAX_TITLE_LEN),
     summary |-> coerceString(Either(Either(Get(outline, "summary"),
                                            Get(fallbackExisting, "summary")),
                                     Str(<<>>)),
                              0, 320),
     slides |-> SlidesOrOverview(
                    NormalizedSlides(CandidateSlides(outline, pages,
                            fallbackExisting)),
                    pages)]

(***************************************************************************)
(* The replies and page lists a call is checked on.                        *)
(***************************************************************************)
LongTitle == [i \in 1..130 |-> IF i % 10 = 0 THEN " " ELSE "t"]
LongBullet == [i \in 1..200 |-> "b"]
Bullet(i) == Str(<<"p", "o", "i", "n", "t", " ">> \o NatToString(i))

RichSlide ==
    Obj([template |-> Str(<<" ", "F", "l", "o", "w", "c", "h", "a", "r", "t",
            " ">>),
         title |-> Str(<<" ", "TAB">> \o LongTitle),
         subtitle |-> Whole(7),
         bullets |-> Arr(<<Str(<<>>), Str(<<" ", " ", "a", " ", " ", " ",
                 "b", " ">>), Whole(7), Null, Str(LongBullet),
                           Arr(<<Str(<<"x">>), Null, Str(<<"y">>)>>),
                                   Obj(NoProps),
                           Bullet(1), Bullet(2), Bullet(3), Bullet(4)>>),
         imagePages |-> Arr(<<Str(<<"3">>), Whole(3), Whole(0), Whole(-1),
                 Str(<<"x">>),
                              Num(Frac(5, 2)), Str(<<" ", "4">>), Str(<<"5",
                                      "p", "x">>), Null,
                              Num(Frac(-1, 2)), Str(<<"-", "2">>),
                                      Whole(12)>>),
         notes |-> Str(<<"s", "p", "e", "a", "k", " ", "s", "l", "o", "w",
                 "l", "y">>),
         flow |-> Obj([steps |-> Arr(<<Str(<<"i", "n">>), Str(<<>>),
                 Str(<<"o", "u", "t">>)>>)]),
         left |-> Obj([title |-> Str(<<"p", "r", "o">>),
                 bullets |-> Arr(<<Str(<<"f", "a", "s", "t">>)>>)]),
         right |-> Arr(<<>>)])

PlainSlide(title) == Obj([title |-> Str(title)])

MaxRawSlides == 27

\* one slide per key and per value of the alias map
AliasNames ==
    <<<<"t", "i", "t", "l", "e">>, <<"t", "i", "t", "l", "e", "-", "o", "n",
            "l", "y">>, <<"t", "i", "t", "l", "e", "_", "b", "u", "l", "l",
                    "e", "t", "s">>, <<"t", "i", "t", "l", "e", "-", "b",
                            "u", "l", "l", "e", "t", "s">>, <<"b", "u", "l",
                                    "l", "e", "t", "s">>,
      <<"i", "m", "a", "g", "e">>, <<"i", "m", "a", "g", "e", "-", "c", "a",
              "r", "d">>, <<"i", "m", "a", "g", "e", "_", "l", "e", "f",
                      "t">>, <<"i", "m", "a", "g", "e", "-", "l", "e", "f",
                              "t">>, <<"i", "m", "a", "g", "e", "_", "r",
                                      "i", "g", "h", "t">>,
      <<"i", "m", "a", "g", "e", "-", "r", "i", "g", "h", "t">>, <<"t", "w",
              "o", "-", "c", "o", "l", "u", "m", "n">>, <<"t", "w", "o", "_",
                      "c", "o", "l", "u", "m", "n">>, <<"f", "l", "o", "w",
                              "c", "h", "a", "r", "t">>, <<"q", "u", "o",
                                      "t", "e">>,
      <<"c", "o", "m", "p", "a", "r", "i", "s", "o", "n">>, <<"s", "e", "c",
              "t", "i", "o", "n", "-", "d", "i", "v", "i", "d", "e", "r">>,
                      <<"s", "e", "c", "t", "i", "o", "n", "_", "d", "i",
                              "v", "i", "d", "e", "r">>, <<"c", "h", "a",
                                      "r", "t">>>>

OddNames ==
    <<Str(<<"M", "y", " ", "I", "m", "a", "g", "e">>), Str(<<"t", "w", "o",
            " ", " ", "c", "o", "l", "s">>), Str(<<"T", "i", "t", "l", "e",
                    " ", "&", " ", "B", "u", "l", "l", "e", "t", "s">>),
      Str(<<"s", "u", "b", "t", "i", "t", "l", "e">>), Str(<<"u", "n", "k",
              "n", "o", "w", "n">>), Whole(5), Str(<<" ", " ", "C", "H", "A",
                      "R", "T", " ">>),
      Str(<<"t", "w", "o", "NL", "c", "o", "l">>), Null>>

Hinted(names) == Arr([k \in 1..Len(names) |-> Obj([template |-> names[k]])])

Replies ==
    <<Null,
      Obj(NoProps),
      Str(<<"a", "b", "c">>),
      Arr(<<PlainSlide(<<"a">>)>>),
      Obj([slides |-> Str(<<"n", "o", "n", "e">>)]),
      Obj([slides |-> Arr(<<>>)]),
      Obj([theme |-> Str(<<" ", " ", "M", "i", "d", "n", "i", "g", "h", "t",
              " ">>), title |-> Str(LongTitle),
           summary |-> Str(<<"a", " ", " ", " ", "s", "u", "m", "m", "a",
                   "r", "y">>),
           slides |-> Arr(<<RichSlide, Null, Whole(5), Obj(NoProps),
                   Str(<<"x">>)>>)]),
      Obj([theme |-> Str(<<" ", " ", " ">>),
           slides |-> Arr([k \in 1..MaxRawSlides |-> PlainSlide(<<"s">>)])]),
      Obj([slides |-> Hinted([k \in 1..Len(AliasNames) |-> Str(AliasNames[k])])]),
      Obj([slides |-> Hinted(OddNames)])>>

PageOf(n, text, include, title, caption) ==
    Obj([page |-> Whole(n), text |-> Str(text), include |-> include,
         title |-> Str(title), caption |-> Str(caption)])

PageLists ==
    <<Undefined,
      Arr(<<>>),
      Arr(<<PageOf(1, <<"F", "i", "r", "s", "t", " ", "p", "o", "i", "n",
              "t", " ", "h", "e", "r", "e", ".", " ", "S", "e", "c", "o",
                      "n", "d", " ", "o", "n", "e", " ", "f", "o", "l", "l",
                              "o", "w", "s", "!", " ", "(", "t", "h", "i",
                                      "r", "d", ")", " ", "t", "o", "o", " ",
                                              "s", "h", "o", "r", "t">>,
                   Bool(FALSE), <<>>, <<>>),
            PageOf(2, <<>>, Bool(TRUE), <<" ", "C", "h", "a", "r", "t", " ">>,
                    <<"S", "a", "l", "e", "s", " ", "b", "y", " ", "y", "e",
                            "a", "r">>),
            PageOf(3, <<"N", "o", " ", "b", "r", "e", "a", "k", ".", "NL",
                    "NL",
                        "a", "n", "o", "t", "h", "e", "r", " ", "l", "i",
                                "n", "e">>,
                   Bool(TRUE), <<>>, <<>>)>>),
      Arr([n \in 1..10 |-> PageOf(n, <<>>, Bool(FALSE), <<>>, <<>>)])>>

ExistingOutlines ==
    <<Null,
      Obj([theme |-> Str(<<"C", "o", "r", "a", "l">>), title |-> Str(<<"E",
              "a", "r", "l", "i", "e", "r", " ", "d", "e", "c", "k">>),
           slides |-> Arr(<<PlainSlide(<<"k", "e", "p", "t">>)>>)]),
      Obj([theme |-> Str(<<" ", " ">>), slides |-> Arr(<<>>)])>>

(***************************************************************************)
(* The call of normalizeOutline by planSlidesWithOpenAI and by             *)
(* refineSlidesWithOpenAI.  norm holds the caller, the value parsed from   *)
(* the reply, the pages, the existing outline (refine only) and, once the  *)
(* call has returned, the outline returned.                                *)
(***************************************************************************)
notNorm == <<pdfVars, deck, http, app>>

InitOutline ==
    /\ NoPdfCall
    /\ deck = Idle /\ http = Idle /\ app = Idle
    /\ \E r \in 1..Len(Replies), p \in 1..Len(PageLists), e \in 1..Len(ExistingOutlines) :
       \E caller \in (IF e = 1 THEN {"plan", "refine"} ELSE {"refine"}) :
          norm = [pc |-> "parsed", caller |-> caller, parsed |-> Replies[r],
                  pages |-> PageLists[p], existing |-> ExistingOutlines[e]]

Returned(outline) ==
    [pc |-> "returned", caller |-> norm.caller, parsed |-> norm.parsed,
     pages |-> norm.pages, existing |-> norm.existing, outline |-> outline]

\* normalizeOutline(parsed, pages, { defaultTheme: DEFAULT_THEME })
PlanNormalizes ==
    /\ norm.pc = "parsed" /\ norm.caller = "plan"
    /\ norm' = Returned(normalizeOutline(norm.parsed, norm.pages, Str(DEFAULT_THEME), Null))
    /\ UNCHANGED notNorm

\* normalizeOutline(parsed, pages, { defaultTheme: existingOutline?.theme ||
\* DEFAULT_THEME, fallbackExisting: existingOutline })
RefineNormalizes ==
    /\ norm.pc = "parsed" /\ norm.caller = "refine"
    /\ norm' = Returned(normalizeOutline(norm.parsed, norm.pages,
                            Either(Get(norm.existing, "theme"), Str(DEFAULT_THEME)),
                            norm.existing))
    /\ UNCHANGED notNorm

NextOutline == PlanNormalizes \/ RefineNormalizes

SpecOutline == InitOutline /\ [][NextOutline]_vars

\* ---------------------------------------------------------------------------
\* openaiClient.js: callOpenAI, the HTTP exchange with the Chat Completions API
\* ---------------------------------------------------------------------------

OPENAI_CHAT_URL == "https://api.openai.com/v1/chat/completions"

\* payloads, as the properties they carry; the callers of this file pass
\* response_format together with forceJson
Payloads ==
    {[model |-> "gpt-4.1-mini", messages |-> "prompt",
      response_format |-> "json_object"],
     [model |-> "gpt-4.1-mini", messages |-> "prompt"]}

\* getOpenAIKey(): a key, or none
Keys == {"sk-key", ""}

Statuses == {200, 400, 429, 500}

\* response bodies
Bodies ==
    {<<"{", "}">>,
     <<"U", "n", "k", "n", "o", "w", "n", " ", "p", "a", "r", "a", "m", "e",
             "t", "e", "r", ":", " ", "r", "e", "s", "p", "o", "n", "s", "e",
                     "_", "f", "o", "r", "m", "a", "t">>,
     <<"I", "n", "v", "a", "l", "i", "d", " ", "R", "E", "S", "P", "O", "N",
             "S", "E", "_", "F", "O", "R", "M", "A", "T">>,
     <<"U", "n", "s", "u", "p", "p", "o", "r", "t", "e", "d", " ", "v", "a",
             "l", "u", "e", " ", "f", "o", "r", " ", "t", "h", "e", " ", "R",
                     "e", "s", "p", "o", "n", "s", "e", " ", "t", "y", "p",
                             "e">>,
     <<"U", "n", "s", "u", "p", "p", "o", "r", "t", "e", "d", " ", "m", "o",
             "d", "e", "l">>,
     <<"R", "a", "t", "e", " ", "l", "i", "m", "i", "t", " ", "r", "e", "a",
             "c", "h", "e", "d">>,
     <<>>}

\* the bodies that are JSON texts
JsonBodies == {<<"{", "}">>}

\* what fetch() resolves with: a response whose body can be read (readable)
\* or whose stream fails
Responses == [status : Statuses, body : Bodies, readable : BOOLEAN]

\* what fetch() does: resolves with a response, or rejects
FetchOutcomes == Responses \cup {[rejected |-> "TypeError"]}

FetchFails(r) == "rejected" \in DOMAIN r

\* Response.ok
Ok(r) == r.status >= 200 /\ r.status <= 299

\* the request fetch() sends for a payload
Request(apiKey, payload) ==
    [url |-> OPENAI_CHAT_URL, method |-> "POST", authorization |-> apiKey,
     body |-> payload]

\* { ...payload } with response_format deleted
WithoutResponseFormat(payload) ==
    [k \in DOMAIN payload \ {"response_format"} |-> payload[k]]

\* /response_format/i.test(bodyText) || /unsupported.*response/i.test(bodyText)
looksLikeResponseFormatIssue(bodyText) ==
    \/ Includes(Lower(bodyText), <<"r", "e", "s", "p", "o", "n", "s", "e",
            "_", "f", "o", "r", "m", "a", "t">>)
    \/ IncludesThen(Lower(bodyText), <<"u", "n", "s", "u", "p", "p", "o",
            "r", "t", "e", "d">>, <<"r", "e", "s", "p", "o", "n", "s", "e">>)

\* what the async function settles with
Returns(value) == [kind |-> "returned", value |-> value]
Throws(name, message) == [kind |-> "thrown", name |-> name,
        message |-> message]
Pending == [kind |-> "pending"]

\* return res.json(): the call's promise follows the promise of json()
ReturnsJson(r) ==
    IF r.readable /\ r.body \in JsonBodies THEN Returns([json |-> r.body])
    ELSE Throws("SyntaxError", r.body)

\* `OpenAI error: ${status} ${text}` and `OpenAI error (retry): ${status} ${text}`
ErrorMessage(status, text) ==
    <<"O", "p", "e", "n", "A", "I", " ", "e", "r", "r", "o", "r", ":",
            " ">> \o NatToString(status) \o <<" ">> \o text
RetryErrorMessage(status, text) ==
    <<"O", "p", "e", "n", "A", "I", " ", "e", "r", "r", "o", "r", " ", "(",
            "r", "e", "t", "r", "y", ")", ":",
                    " ">> \o NatToString(status) \o <<" ">> \o text

\* await res.text().catch(() => ""): the text of a body not yet used, and ""
\* when the body was already read or its stream fails
TextOrEmpty(r, bodyUsed) == IF bodyUsed \/ ~r.readable THEN <<>> ELSE r.body

\* the last two statements of callOpenAI
ThrowsFirstError(r, bodyUsed) ==
    Throws("Error", ErrorMessage(r.status, TextOrEmpty(r, bodyUsed)))

notHttp == <<pdfVars, deck, norm, app>>

InitHttp ==
    /\ NoPdfCall
    /\ deck = Idle /\ norm = Idle /\ app = Idle
    /\ \E payload \in Payloads, forceJson \in BOOLEAN, key \in Keys :
          http = [pc |-> "call", payload |-> payload, forceJson |-> forceJson,
                  key |-> key, requests |-> <<>>, responses |-> <<>>,
                  outcome |-> Pending]

Settled(outcome) == [http EXCEPT !.pc = "settled", !.outcome = outcome]

\* callOpenAI up to its first await: ensureApiKey() and the first fetch
Call ==
    /\ http.pc = "call"
    /\ http' = IF http.key = ""
               THEN Settled(Throws("Error", <<"M", "i", "s", "s", "i", "n",
                       "g", " ", "R", "E", "A", "C", "T", "_", "A", "P", "P",
                               "_", "O", "P", "E", "N", "A", "I", "_", "A",
                                       "P", "I", "_", "K", "E", "Y">>))
               ELSE [http EXCEPT !.pc = "first",
                                 !.requests = <<Request(http.key,
                                         http.payload)>>]
    /\ UNCHANGED notHttp

\* the retry is sent when forceJson is set, the status is 400, the body can be
\* read and its text looks like a response_format issue
Retries(r) ==
    /\ http.forceJson
    /\ r.status = 400
    /\ r.readable
    /\ looksLikeResponseFormatIssue(r.body)

\* the first fetch settles; the function runs on to its return, its throw, or
\* the fetch of the retry. Inside `if (forceJson && status === 400)` the body
\* is read, so the text read again for the final error is ""
FirstSettles ==
    /\ http.pc = "first"
    /\ \E r \in FetchOutcomes :
          http' =
             IF FetchFails(r) THEN Settled(Throws(r.rejected, <<"F", "a", "i",
                     "l", "e", "d", " ", "t", "o", " ", "f", "e", "t", "c",
                             "h">>))
             ELSE IF Ok(r)
                  THEN [Settled(ReturnsJson(r)) EXCEPT !.responses = <<r>>]
             ELSE IF Retries(r)
                  THEN [http EXCEPT !.pc = "retry", !.responses = <<r>>,
                           !.requests = Append(@, Request(http.key,
                                   WithoutResponseFormat(http.payload)))]
             ELSE [Settled(ThrowsFirstError(r,
                     http.forceJson /\ r.status = 400))
                      EXCEPT !.responses = <<r>>]
    /\ UNCHANGED notHttp

\* the retry's fetch settles inside the try block: a retry that is ok returns
\* its JSON; the Error thrown for a retry that is not ok, like a rejection of
\* the fetch, is caught by the enclosing `catch {}` and the function falls
\* through to the error of the first response, whose body was already read
RetrySettles ==
    /\ http.pc = "retry"
    /\ \E r \in FetchOutcomes :
          http' =
             IF FetchFails(r) THEN Settled(ThrowsFirstError(http.responses[1],
                     TRUE))
             ELSE IF Ok(r)
                  THEN [Settled(ReturnsJson(r)) EXCEPT !.responses = Append(@, r)]
             ELSE [Settled(ThrowsFirstError(http.responses[1], TRUE))
                      EXCEPT !.responses = Append(@, r)]
    /\ UNCHANGED notHttp

NextHttp == Call \/ FirstSettles \/ RetrySettles

SpecHttp == InitHttp /\ [][NextHttp]_vars

\* ---------------------------------------------------------------------------
\* App.js: the state of the App component, its effects and its handlers
\* ---------------------------------------------------------------------------

\* the async operations (analyses, builds, chat sends) one run of the page starts
MaxOps == 3

\* the page numbers of the chosen PDF, each page analysed by its own request
PdfPages == {1}

\* qs.get(name) for the query strings tried: null when the parameter is absent
Queries ==
    {[strict |-> Null, lockedStyles |-> Null, testMode |-> Null,
            autoAccent |-> Null],
     [strict |-> Str(<<"1">>), lockedStyles |-> Null, testMode |-> Null,
      autoAccent |-> Null],
     [strict |-> Str(<<"T", "R", "U", "E">>), lockedStyles |-> Null,
             testMode |-> Null,
      autoAccent |-> Str(<<"t", "r", "u", "e">>)],
     [strict |-> Null, lockedStyles |-> Str(<<"L", "o", "c", "k", "e",
             "d">>), testMode |-> Null,
      autoAccent |-> Str(<<"1">>)],
     [strict |-> Str(<<"l", "o", "c", "k", "e", "d", "S", "t", "y", "l", "e",
             "s">>), lockedStyles |-> Null,
      testMode |-> Str(<<"o", "n">>), autoAccent |-> Str(<<"O", "F", "F">>)],
     [strict |-> Null, lockedStyles |-> Null, testMode |-> Str(<<"y", "e",
             "s">>),
      autoAccent |-> Null],
     [strict |-> Null, lockedStyles |-> Null, testMode |-> Null,
      autoAccent |-> Str(<<"n", "o">>)]}

\* the query string once the mount effect has read it; nothing reads it again
NoQuery == [strict |-> Null, lockedStyles |-> Null, testMode |-> Null,
        autoAccent |-> Null]

\* localStorage: the two items, or a storage the page is denied access to
StoredValues == {Null, Str(<<"1">>), Str(<<"0">>)}
Storages ==
    [strictStyles : StoredValues,
            autoAccent : StoredValues] \cup {[denied |-> TRUE]}

Denied(storage) == "denied" \in DOMAIN storage

\* a ?? b
Nullish(a, b) == IF a = Null \/ a = Undefined THEN b ELSE a

\* /^(1|true|yes|on|locked|strict)$/i.test(String(strictParam))
StrictWords ==
    {<<"1">>, <<"t", "r", "u", "e">>, <<"y", "e", "s">>, <<"o", "n">>, <<"l",
            "o", "c", "k", "e", "d">>, <<"s", "t", "r", "i", "c", "t">>}

\* /^(0|false|no|off)$/i.test(String(aaParam))
OffWords == {<<"0">>, <<"f", "a", "l", "s", "e">>, <<"n", "o">>, <<"o", "f",
        "f">>}

\* qs.get('strict') ?? qs.get('lockedStyles') ?? qs.get('testMode')
StrictParam(query) ==
    Nullish(query.strict, Nullish(query.lockedStyles, query.testMode))

\* what the mount effect computes: <<strict, aa>>. Reading localStorage
\* throws when storage is denied, and the catch block applies the defaults
InitialStyles(query, storage) ==
    IF (StrictParam(query) = Null \/ query.autoAccent = Null) /\ Denied(storage)
    THEN <<FALSE, TRUE>>
    ELSE LET strict ==
                 IF StrictParam(query) # Null
                 THEN Lower(StringOf(StrictParam(query))) \in StrictWords
                 ELSE storage.strictStyles = Str(<<"1">>)
             aa ==
                 IF query.autoAccent = Null
                 THEN IF storage.autoAccent = Null THEN TRUE
                      ELSE storage.autoAccent # Str(<<"0">>)
                 ELSE Lower(StringOf(query.autoAccent)) \notin OffWords
         IN  <<strict, IF strict THEN FALSE ELSE aa>>

\* localStorage.setItem(name, flag ? '1' : '0'), ignored when it throws
Stored(storage, name, flag) ==
    IF Denied(storage) THEN storage
    ELSE [storage EXCEPT ![name] = IF flag THEN Str(<<"1">>) ELSE Str(<<"0">>)]

\* an effect of [strictStyles] that leaves autoAccent alone
StrictForcesAccentOffIdle(strict, aa, queued) == queued

\* the effect of [strictStyles]: if (strictStyles && autoAccent)
\* setAutoAccent(false); the flags are those of the render that queued it
StrictForcesAccentOff(strict, aa, queued) ==
    IF strict /\ aa THEN FALSE ELSE queued

\* the effects of one commit, run in the order the component declares them:
\* the mount effect, the effect of [strictStyles], the two effects that persist
\* the flags. The state updates they queue are applied together afterwards
AfterEffects(a) ==
    LET init == IF "mount" \in a.pending
                THEN InitialStyles(a.query, a.storage)
                ELSE <<a.strictStyles, a.autoAccent>>
        strict == init[1]
        aa == IF "strict" \in a.pending
              THEN StrictForcesAccentOff(a.strictStyles, a.autoAccent,
                      init[2])
              ELSE init[2]
        stored1 == IF "persistAccent" \in a.pending
                   THEN Stored(a.storage, "autoAccent", a.autoAccent)
                   ELSE a.storage
        stored2 == IF "persistStrict" \in a.pending
                   THEN Stored(stored1, "strictStyles", a.strictStyles)
                   ELSE stored1
    IN  [a EXCEPT !.query = NoQuery,
                  !.storage = stored2,
                  !.strictStyles = strict,
                  !.autoAccent = aa,
                  !.pending =
                     (IF strict # a.strictStyles THEN {"strict",
                             "persistStrict"}
                      ELSE {})
                     \cup (IF aa # a.autoAccent THEN {"persistAccent"} ELSE {})]

\* isBusy = analyzing || pptBuilding
isBusy == app.analyzing \/ app.pptBuilding

\* the effects of the last commit have run: React runs them before it handles
\* the next user event
EffectsSettled == app.pending = {}

\* chat messages
Message(role, content) == [role |-> role, content |-> content, n |-> 0]
UserMessage(n) == [role |-> "user", content |-> "edit", n |-> n]

Greeting == Message("assistant", "Hi! Upload a PDF and press Analyze.")
Drafted ==
    Message("assistant",
            "I analyzed your PDF and drafted the following slide outline:")
OutlineText == Message("assistant", "formatOutlineForChat(plan)")
ThemedNote ==
    Message("assistant",
            "Generated a themed PPT using your currently selected pages.")
ThanksNote ==
    Message("assistant",
            "Thanks! I applied your feedback and generated the PPT.")
Reply == Message("assistant", "assistantReply")
Sorry ==
    Message("assistant",
            "Sorry, something went wrong while contacting OpenAI.")

NoBuild == [path |-> "none"]
NoSend == [pending |-> FALSE]

notApp == <<pdfVars, deck, norm, http>>

\* the component before its first effects: the useState defaults
InitApp ==
    /\ NoPdfCall
    /\ deck = Idle /\ norm = Idle /\ http = Idle
    /\ \E query \in Queries, storage \in Storages :
          app = [query |-> query, storage |-> storage,
                 strictStyles |-> FALSE, autoAccent |-> TRUE,
                 pending |-> {"mount", "strict", "persistAccent",
                         "persistStrict"},
                 polishedMode |-> FALSE, pdfFile |-> FALSE,
                 analyzing |-> FALSE, pptBuilding |-> FALSE,
                 pptReady |-> FALSE, sending |-> FALSE,
                 analysis |-> <<>>, outline |-> "null",
                 chatHistory |-> <<Greeting>>,
                 runs |-> <<>>, build |-> NoBuild, send |-> NoSend, ops |-> 0]

\* the effects queued by the last commit run
FlushEffects ==
    /\ app.pending # {}
    /\ app' = AfterEffects(app)
    /\ UNCHANGED notApp

\* the Strict Styles checkbox: setStrictStyles(e.target.checked)
ToggleStrict ==
    /\ EffectsSettled /\ ~isBusy
    /\ app' = [app EXCEPT !.strictStyles = ~@,
                          !.pending = {"strict", "persistStrict"}]
    /\ UNCHANGED notApp

\* the Auto Accent checkbox, disabled while strictStyles is on
ToggleAutoAccent ==
    /\ EffectsSettled /\ ~isBusy /\ ~app.strictStyles
    /\ app' = [app EXCEPT !.autoAccent = ~@, !.pending = {"persistAccent"}]
    /\ UNCHANGED notApp

\* the Polished Mode checkbox
TogglePolished ==
    /\ EffectsSettled /\ ~isBusy
    /\ app' = [app EXCEPT !.polishedMode = ~@]
    /\ UNCHANGED notApp

\* resetWork(): setAnalysis([]), setOutline(null), setAnalyzing(false),
\* setPptReady(false), ...
resetWork(a) ==
    [a EXCEPT !.analysis = <<>>, !.outline = "null", !.analyzing = FALSE,
              !.pptReady = FALSE]

\* onFileChange / onDrop with a PDF file: the file input and the drop zone are
\* never disabled
ChooseFile ==
    /\ EffectsSettled
    /\ app' = [resetWork(app) EXCEPT !.pdfFile = TRUE]
    /\ UNCHANGED notApp

\* the Reset button. pageImages and analysis are only filled once a file was
\* chosen, so the button's disabled condition is isBusy || !pdfFile
Reset ==
    /\ EffectsSettled /\ ~isBusy /\ app.pdfFile
    /\ app' = resetWork(app)
    /\ UNCHANGED notApp

\* the Include checkbox of page k
toggleInclude(k) ==
    /\ EffectsSettled
    /\ k \in 1..Len(app.analysis)
    /\ app' = [app EXCEPT !.analysis[k] = ~@]
    /\ UNCHANGED notApp

\* handleAnalyze up to its first await, with the API key configured; the
\* Analyze button is disabled when !pdfFile || isBusy
handleAnalyze ==
    /\ EffectsSettled /\ app.ops < MaxOps
    /\ app.pdfFile /\ ~isBusy
    /\ ~app.pptBuilding
    /\ app' = [app EXCEPT !.analyzing = TRUE, !.analysis = <<>>,
                          !.outline = "null", !.ops = @ + 1,
                          !.runs = Append(@, [stage |-> "extract",
                                              results |-> <<>>])]
    /\ UNCHANGED notApp

RemoveAt(s, i) == SubSeq(s, 1, i - 1) \o SubSeq(s, i + 1, Len(s))

\* Promise.all([pdfToImages, pdfToText]) resolves for run i
Extracted(i) ==
    /\ i \in 1..Len(app.runs)
    /\ app.runs[i].stage = "extract"
    /\ app' = [app EXCEPT !.runs[i].stage = "page"]
    /\ UNCHANGED notApp

\* analyzeImageWithOpenAI resolves for the next page of run i:
\* results.push(...), setAnalysis([...results])
PageAnalyzed(i) ==
    /\ i \in 1..Len(app.runs)
    /\ app.runs[i].stage = "page"
    /\ \E include \in BOOLEAN :
          LET pushed == Append(app.runs[i].results, include)
          IN  app' = [app EXCEPT
                         !.analysis = pushed,
                         !.runs[i] = [stage |-> IF Len(pushed) < Cardinality(PdfPages)
                                                THEN "page" ELSE "plan",
                                      results |-> pushed]]
    /\ UNCHANGED notApp

\* planSlidesWithOpenAI resolves for run i: setOutline(plan), the two chat
\* messages appended to prev, and finally setAnalyzing(false)
Planned(i) ==
    /\ i \in 1..Len(app.runs)
    /\ app.runs[i].stage = "plan"
    /\ app' = [app EXCEPT !.outline = "plan",
                          !.chatHistory = @ \o <<Drafted, OutlineText>>,
                          !.analyzing = FALSE,
                          !.runs = RemoveAt(@, i)]
    /\ UNCHANGED notApp

\* an await of run i rejects: catch, and finally setAnalyzing(false)
AnalysisFails(i) ==
    /\ i \in 1..Len(app.runs)
    /\ app' = [app EXCEPT !.analyzing = FALSE, !.runs = RemoveAt(@, i)]
    /\ UNCHANGED notApp

\* selectedSlides.length > 0
SomeSelected == \E k \in 1..Len(app.analysis) : app.analysis[k]

\* a build in flight: the path taken, the await it stands at, the flags of
\* the render whose handleBuildPPT runs, and whether generatePptx /
\* generatePptxFromOutline was called yet (with { autoAccent })
Build(path, stage, called) ==
    [path |-> path, stage |-> stage, called |-> called,
     autoAccent |-> app.autoAccent, strictStyles |-> app.strictStyles]

\* handleBuildPPT up to its first await. The button is rendered when analysis
\* is not empty and disabled when isBusy; the clicks that only alert are left
\* out
handleBuildPPT ==
    /\ EffectsSettled /\ app.ops < MaxOps
    /\ app.analysis # <<>> /\ ~isBusy
    /\ IF app.outline = "null"
       THEN /\ SomeSelected
            /\ ~app.analyzing
            /\ app' = [app EXCEPT
                          !.pptBuilding = TRUE, !.pptReady = FALSE,
                          !.ops = @ + 1,
                          !.build = Build(IF app.polishedMode THEN "minimal"
                                          ELSE "legacy", "generate", TRUE)]
       ELSE /\ ~app.analyzing
            /\ app' = [app EXCEPT
                          !.pptBuilding = TRUE, !.pptReady = FALSE,
                          !.ops = @ + 1,
                          !.build = Build("refined", "refine", FALSE)]
    /\ UNCHANGED notApp

\* refineSlidesWithOpenAI resolves: setOutline(refined) and the call of
\* generatePptxFromOutline
Refined ==
    /\ app.build.path = "refined" /\ app.build.stage = "refine"
    /\ app' = [app EXCEPT !.outline = "refined",
                          !.build.stage = "generate",
                          !.build.called = TRUE]
    /\ UNCHANGED notApp

\* the generation resolves: setPptReady(true), the chat message of the path,
\* and finally setPptBuilding(false)
Generated ==
    /\ app.build.path # "none" /\ app.build.stage = "generate"
    /\ app' = [app EXCEPT
                  !.outline = IF app.build.path = "minimal" /\ @ = "null"
                              THEN "minimal" ELSE @,
                  !.chatHistory =
                      IF app.build.path = "minimal" THEN Append(@, ThemedNote)
                      ELSE IF app.build.path = "refined" THEN Append(@,
                              ThanksNote)
                      ELSE @,
                  !.pptReady = TRUE,
                  !.pptBuilding = FALSE,
                  !.build = NoBuild]
    /\ UNCHANGED notApp

\* an await of the build rejects: catch, and finally setPptBuilding(false)
BuildFails ==
    /\ app.build.path # "none"
    /\ app' = [app EXCEPT !.pptBuilding = FALSE, !.build = NoBuild]
    /\ UNCHANGED notApp

\* sendMessage up to its await, with a message typed: the history is built
\* from the chatHistory of the render whose handler runs
sendMessage ==
    /\ EffectsSettled /\ app.ops < MaxOps
    /\ ~app.sending /\ ~isBusy
    /\ app' = [app EXCEPT
                  !.chatHistory = Append(app.chatHistory,
                          UserMessage(app.ops + 1)),
                  !.sending = TRUE, !.ops = @ + 1,
                  !.send = [pending |-> TRUE, chatHistory |-> app.chatHistory,
                            userMessage |-> UserMessage(app.ops + 1)]]
    /\ UNCHANGED notApp

\* chatWithOpenAI settles: setChatHistory([...chatHistory, user, assistant])
\* with the chatHistory captured when the message was sent
ReplyArrives ==
    /\ app.send.pending
    /\ \E answer \in {Reply, Sorry} :
          app' = [app EXCEPT
                     !.chatHistory = app.send.chatHistory
                                        \o <<app.send.userMessage, answer>>,
                     !.sending = FALSE,
                     !.send = NoSend]
    /\ UNCHANGED notApp

NextApp ==
    \/ FlushEffects
    \/ ToggleStrict
    \/ ToggleAutoAccent
    \/ TogglePolished
    \/ ChooseFile
    \/ Reset
    \/ \E k \in PdfPages : toggleInclude(k)
    \/ handleAnalyze
    \/ \E i \in 1..MaxOps : Extracted(i)
    \/ \E i \in 1..MaxOps : PageAnalyzed(i)
    \/ \E i \in 1..MaxOps : Planned(i)
    \/ \E i \in 1..MaxOps : AnalysisFails(i)
    \/ handleBuildPPT
    \/ Refined
    \/ Generated
    \/ BuildFails
    \/ sendMessage
    \/ ReplyArrives

SpecApp == InitApp /\ [][NextApp]_vars








(***************************************************************************)
(* Properties.  The locals of the last page processed are compared with    *)
(* that page's entry in results.                                           *)
(***************************************************************************)
PageDone == Len(results) > 0
LastResult == results[Len(results)]

\* the positions <<chunk, index>> of the spans arrays of a page's chunks
SpanSlots(chs) ==
    UNION {{<<c, k>> : k \in 1..Len(chs[c].spans)} : c \in 1..Len(chs)}

SlotsOf(chs, id) == {s \in SpanSlots(chs) : chs[s[1]].spans[s[2]].id = id}

\* C1: on every page, each item with non-empty text (each extracted span)
\* occupies exactly one position of one chunk's spans array, carrying the
\* item's text, and an item with empty text occupies none; the greedy pass
\* and the post-split pass each hold every extracted span exactly once.
HeldOnce(lns, id) ==
    Cardinality({s \in SpanSlots([i \in 1..Len(lns) |-> [spans |-> lns[i]]]) :
                    lns[s[1]][s[2]].id = id}) = 1

C1_Coverage ==
    PageDone =>
        /\ \A i \in 1..Len(items) :
              IF items[i].str # <<>>
              THEN /\ Cardinality(SlotsOf(LastResult.chunks, i)) = 1
                   /\ \A s \in SlotsOf(LastResult.chunks, i) :
                         LastResult.chunks[s[1]].spans[s[2]].text = items[i].str
              ELSE SlotsOf(LastResult.chunks, i) = {}
        /\ \A s \in SpanSlots(LastResult.chunks) :
              LastResult.chunks[s[1]].spans[s[2]].id \in 1..Len(items)
        /\ \A k \in 1..Len(spans) :
              HeldOnce(greedy, spans[k].id) /\ HeldOnce(lines, spans[k].id)

\* a page where the post-split pass split a greedy line, a line holds
\* several spans, and an item with empty text was filtered out
C1_Witness ==
    /\ pc = "resolved"
    /\ Len(lines) > Len(greedy)
    /\ \E c \in 1..Len(chunks) : Len(chunks[c].spans) >= 2
    /\ \E i \in 1..Len(items) : items[i].str = <<>>


\* the font condition of a heading: at least 0.9 x the page's largest block
\* font size and at least 1.35 x the page's median block font size
FontAtLeastBoth(lb, lbs) ==
    /\ RGe(lb.fontSize, RMul(MaxFont(lbs), Frac(9, 10)))
    /\ RGe(lb.fontSize, RMul(MedFont(lbs), Frac(135, 100)))

FontAtLeastOne(lb, lbs) ==
    \/ RGe(lb.fontSize, RMul(MaxFont(lbs), Frac(9, 10)))
    \/ RGe(lb.fontSize, RMul(MedFont(lbs), Frac(135, 100)))

HeadingByClaim(lb, lbs) ==
    /\ ~looksLikeList(lb.text)
    /\ Len(lb.text) <= 120
    /\ FontAtLeastBoth(lb, lbs)
    /\ ~BareNumber(lb.text)

\* C2: on every page, a block that matches no list marker, has at most 120
\* characters, has font size >= max(0.9 x maxFont, 1.35 x medianFont) and is
\* not a bare 1-3 digit number is emitted with type "heading", and a bare
\* number is not.  The code does not do this: it computes the local isHeading
\* and drops it, and types every chunk "list" or "paragraph".
C2_HeadingEmitted ==
    PageDone =>
        \A c \in 1..Len(lineBlocks) :
            /\ HeadingByClaim(lineBlocks[c], lineBlocks) =>
                  LastResult.chunks[c].type = "heading"
            /\ BareNumber(lineBlocks[c].text) => LastResult.chunks[c].type # "heading"


\* the page of the claim's example: median 12, max 28, a title of size 26
\* that the local isHeading accepts
C2_Witness ==
    /\ pc = "resolved"
    /\ MedFont(lineBlocks) = R(12) /\ MaxFont(lineBlocks) = R(28)
    /\ \E c \in 1..Len(lineBlocks) :
          /\ lineBlocks[c].fontSize = R(26)
          /\ lineBlocks[c].text = <<"T", "i", "t", "l", "e">>
          /\ isHeading(lineBlocks[c], MaxFont(lineBlocks), MedFont(lineBlocks))
          /\ HeadingByClaim(lineBlocks[c], lineBlocks)
          /\ chunks[c].type = "paragraph"

\* C3: on every page, each chunk has one type among heading, list and
\* paragraph; a chunk typed "heading" has font size >= 0.9 x maxFont or
\* >= 1.35 x medianFont and its text matches no list marker; a block whose
\* text matches a list marker is typed "list" whatever its font size.  The
\* same holds of the blocks the local isHeading accepts.
C3_Classification ==
    PageDone =>
        \A c \in 1..Len(lineBlocks) :
            /\ LastResult.chunks[c].type \in {"heading", "list", "paragraph"}
            /\ LastResult.chunks[c].type = "heading" =>
                  /\ FontAtLeastOne(lineBlocks[c], lineBlocks)
                  /\ ~looksLikeList(lineBlocks[c].text)
            /\ looksLikeList(lineBlocks[c].text) => LastResult.chunks[c].type = "list"
            /\ isHeading(lineBlocks[c], MaxFont(lineBlocks), MedFont(lineBlocks)) =>
                  /\ FontAtLeastOne(lineBlocks[c], lineBlocks)
                  /\ ~looksLikeList(lineBlocks[c].text)

\* a page with a block that matches a list marker and has a heading's font
\* size (typed "list"), and a block the local isHeading accepts
C3_Witness ==
    /\ pc = "resolved"
    /\ \E c \in 1..Len(lineBlocks) :
          /\ looksLikeList(lineBlocks[c].text)
          /\ Len(lineBlocks[c].text) <= 120
          /\ FontAtLeastBoth(lineBlocks[c], lineBlocks)
          /\ chunks[c].type = "list"
    /\ \E c \in 1..Len(lineBlocks) :
          isHeading(lineBlocks[c], MaxFont(lineBlocks), MedFont(lineBlocks))

\* the list markers, stated on the marker m itself (the characters of the
\* trimmed text before the first whitespace that ends the marker)
IsBulletMarker(m) == Len(m) = 1 /\ IsBulletGlyph(m[1])
IsAlphaMarker(m) == Len(m) = 2 /\ IsAlpha(m[1]) /\ m[2] \in {".", ")"}
IsCheckboxMarker(m) == Len(m) = 3 /\ m[1] = "[" /\ m[2] \in {" ", "x", "X"} /\ m[3] = "]"

AllDigits(m, from, to) == \A i \in from..to : IsDigit(m[i])

\* one to three digits then ".", or between "(" and ")", or then ")"
IsNumericMarkerByClaim(m) ==
    \/ Len(m) \in 2..4 /\ AllDigits(m, 1, Len(m) - 1) /\ m[Len(m)] \in {".", ")"}
    \/ Len(m) \in 3..5 /\ m[1] = "(" /\ AllDigits(m, 2, Len(m) - 1) /\ m[Len(m)] = ")"

\* an optional "(", one to three digits, an optional ")", then "." or ")"
IsNumericMarker(m) ==
    \E lp \in {0, 1}, n \in 1..3, rp \in {0, 1} :
        /\ Len(m) = lp + n + rp + 1
        /\ lp = 1 => m[1] = "("
        /\ AllDigits(m, lp + 1, lp + n)
        /\ rp = 1 => m[lp + n + 1] = ")"
        /\ m[Len(m)] \in {".", ")"}

\* the ends k of the prefixes of t that are followed by whitespace; for the
\* checkbox "[ ]" the marker itself holds a space
MarkerEnds(t) == {k \in 1..(Len(t) - 1) : IsSpace(t[k + 1])}

StartsWithMarkerByClaim(t) ==
    \E k \in MarkerEnds(t) :
        \/ IsBulletMarker(SubSeq(t, 1, k))
        \/ IsNumericMarkerByClaim(SubSeq(t, 1, k))
        \/ IsAlphaMarker(SubSeq(t, 1, k))
        \/ IsCheckboxMarker(SubSeq(t, 1, k))

StartsWithMarker(t) ==
    \E k \in MarkerEnds(t) :
        \/ IsBulletMarker(SubSeq(t, 1, k))
        \/ IsNumericMarker(SubSeq(t, 1, k))
        \/ IsAlphaMarker(SubSeq(t, 1, k))
        \/ IsCheckboxMarker(SubSeq(t, 1, k))

\* C4 as stated: a block is typed "list" if and only if its trimmed text
\* starts with a bullet or dash glyph, a numeric marker of the form 1. or
\* (1) or 1) (read here with one to three digits), a letter marker a. or
\* a), or a checkbox marker, followed by whitespace.
C4_ListIffMarker ==
    PageDone =>
        \A c \in 1..Len(lineBlocks) :
            LastResult.chunks[c].type = "list" <=>
                StartsWithMarkerByClaim(Trim(lineBlocks[c].text))

\* C4 as amended: the same, where a numeric marker is an optional "(", one
\* to three digits, an optional ")" and then "." or ")", so that (1). and
\* 1). and (1. and 1)) and (1)) are markers too and a number of four digits
\* is none; the font size of the block plays no part.
C4_ListIffMarkerAmended ==
    PageDone =>
        \A c \in 1..Len(lineBlocks) :
            LastResult.chunks[c].type = "list" <=>
                StartsWithMarker(Trim(lineBlocks[c].text))

\* a page with the list "1). a" and a bulleted block that has a heading's
\* font size
C4_Witness ==
    /\ pc = "resolved"
    /\ \E c \in 1..Len(chunks) :
          chunks[c].text = <<"1", ")", ".", " ", "a">> /\ chunks[c].type = "list"
    /\ \E c \in 1..Len(chunks) :
          /\ chunks[c].text = <<"U2022", " ", "a">> /\ chunks[c].type = "list"
          /\ FontAtLeastBoth(lineBlocks[c], lineBlocks)

\* C5: on every page, when detectColumns returns more than one column,
\* every returned column has width >= max(40, 0.08 x pageWidth).  The code
\* does not do this: the merge loop keeps a narrow leftmost column.
C5_NoNarrowColumn ==
    PageDone /\ Len(columns) > 1 =>
        \A k \in 1..Len(columns) :
            RGe(columns[k].w, RMax(R(40), RMul(pageWidth, Frac(8, 100))))

\* a page resolved into two columns of which the left one is 10 wide
C5_Witness ==
    /\ pc = "resolved"
    /\ Len(columns) = 2
    /\ columns[1].w = R(10)
    /\ RGe(columns[2].w, RMax(R(40), RMul(pageWidth, Frac(8, 100))))
    /\ LastResult.stats.columns = 2

\* the column that holds block b
ColumnsHolding(b) ==
    {k \in 1..Len(columns) : \E j \in 1..Len(columns[k].lines) : columns[k].lines[j] = b}

ColumnHolding(b) == CHOOSE k \in ColumnsHolding(b) : TRUE

PositionsOf(b) == {p \in 1..Len(ordered) : ordered[p] = b}

OrderedTexts == [p \in 1..Len(ordered) |-> lineBlocks[ordered[p]].text]

\* C6: on every page resolved into two or more columns, the reading order
\* holds every block once, no block of a column further right (larger
\* column x) comes before a block of a column further left, and the blocks
\* of one column come with bbox.y descending; the lines of the page's text
\* are the block texts in that order (when no block text is empty and the
\* text is within the budget).
C6_ColumnOrder ==
    PageDone /\ Len(columns) > 1 =>
        /\ \A b \in 1..Len(lineBlocks) :
              Cardinality(PositionsOf(b)) = 1 /\ Cardinality(ColumnsHolding(b)) = 1
        /\ \A p, q \in 1..Len(ordered) :
              p < q =>
                 /\ ~RLt(columns[ColumnHolding(ordered[q])].x,
                         columns[ColumnHolding(ordered[p])].x)
                 /\ ColumnHolding(ordered[p]) = ColumnHolding(ordered[q]) =>
                       RGe(BoxY(lineBlocks[ordered[p]]), BoxY(lineBlocks[ordered[q]]))
        /\ (/\ \A b \in 1..Len(lineBlocks) : lineBlocks[b].text # <<>>
            /\ Len(JoinNL(OrderedTexts)) <= maxCharsPerPage)
              => LastResult.text = JoinNL(OrderedTexts)

\* two columns of two blocks each whose heights interleave: the text lists
\* the left column (A, B) before the right one (C, D)
C6_Witness ==
    /\ pc = "resolved"
    /\ Len(columns) = 2
    /\ Len(columns[1].lines) = 2 /\ Len(columns[2].lines) = 2
    /\ LastResult.text = <<"A", "NL", "B", "NL", "C", "NL", "D">>
    /\ RGt(BoxY(lineBlocks[ordered[3]]), BoxY(lineBlocks[ordered[2]]))

\* blocks i and j hold spans of one line of the greedy pass
SameLineGroup(i, j) ==
    \E g \in 1..Len(greedy) :
        \A b \in {i, j} : \A k \in 1..Len(lineBlocks[b].spans) :
            \E m \in 1..Len(greedy[g]) : greedy[g][m].id = lineBlocks[b].spans[k].id

\* C7: on every page resolved as a single column, consecutive blocks A, B
\* of the reading order have A.bbox.y >= B.bbox.y unless they belong to
\* the same line group.  The code does not do this: the comparator of the
\* fallback sort orders blocks by x when their bbox.y differ by at most 2.
C7_SingleColumnOrder ==
    PageDone /\ Len(columns) = 1 =>
        \A p \in 1..(Len(ordered) - 1) :
            \/ RGe(BoxY(lineBlocks[ordered[p]]), BoxY(lineBlocks[ordered[p + 1]]))
            \/ SameLineGroup(ordered[p], ordered[p + 1])

\* a single-column page whose text lists block A (bbox.y 100) before block
\* E (bbox.y 101), which the line grouper put into different lines
C7_Witness ==
    /\ pc = "resolved"
    /\ Len(columns) = 1
    /\ LastResult.text = <<"A", "NL", "E">>
    /\ BoxY(lineBlocks[ordered[1]]) = R(100) /\ BoxY(lineBlocks[ordered[2]]) = R(101)
    /\ Len(greedy) = 2

\* a span's baseline, y + max(height, fontSize)
BaselineOf(sp) == RAdd(sp.y, RMax(sp.height, sp.fontSize))

MeanBaselineOf(line) ==
    RDiv(RSum([k \in 1..Len(line) |-> BaselineOf(line[k])]), R(Len(line)))

SpreadOfLine(line) ==
    RSub(RMaxOf([k \in 1..Len(line) |-> BaselineOf(line[k])]),
         RMinOf([k \in 1..Len(line) |-> BaselineOf(line[k])]))

\* C8: in every line returned by the line grouper, each span's baseline is
\* within the page's dynamic tolerance of the line's mean baseline, and no
\* two spans of the line have font sizes of ratio (larger / smaller) above
\* 1.6.  The code does not do this: the greedy pass tests a span against
\* the mean baseline and the median font size of the line as it stands
\* when the span arrives.
C8_LineInvariant ==
    PageDone =>
        \A l \in 1..Len(lines) :
            /\ \A k \in 1..Len(lines[l]) :
                  RLe(RAbs(RSub(BaselineOf(lines[l][k]), MeanBaselineOf(lines[l]))),
                      yTolerance)
            /\ \A j, k \in 1..Len(lines[l]) :
                  RGt(lines[l][k].fontSize, Zero) =>
                     RLe(lines[l][j].fontSize,
                         RMul(lines[l][k].fontSize, Frac(16, 10)))

\* a page whose only line holds the runs of font size 10, 16 and 20 that
\* share one baseline
C8_Witness ==
    /\ pc = "resolved"
    /\ Len(lines) = 1 /\ Len(lines[1]) = 3
    /\ \E j, k \in 1..3 : lines[1][j].fontSize = R(10) /\ lines[1][k].fontSize = R(20)
    /\ SpreadOfLine(lines[1]) = Zero

\* the lines returned that hold spans of the greedy line g
PartsOf(g) ==
    {l \in 1..Len(lines) :
        \E k \in 1..Len(lines[l]) : \E m \in 1..Len(g) : lines[l][k].id = g[m].id}

IdsOf(line) == {line[k].id : k \in 1..Len(line)}

\* every span of line A lies below every span of line B
AllBelow(A, B) ==
    \A j \in 1..Len(A) : \A k \in 1..Len(B) : RLt(BaselineOf(A[j]), BaselineOf(B[k]))

\* g is returned as two non-empty lines that partition its spans by baseline
SplitInTwo(g) ==
    /\ Cardinality(PartsOf(g)) = 2
    /\ \E A, B \in PartsOf(g) :
          /\ A # B
          /\ lines[A] # <<>> /\ lines[B] # <<>>
          /\ IdsOf(lines[A]) \cup IdsOf(lines[B]) = IdsOf(g)
          /\ IdsOf(lines[A]) \cap IdsOf(lines[B]) = {}
          /\ Len(lines[A]) + Len(lines[B]) = Len(g)
          /\ AllBelow(lines[A], lines[B])

\* g is returned as it is
Unsplit(g) == \E l \in 1..Len(lines) : lines[l] = g

PlainMedianFont(g) == median([k \in 1..Len(g) |-> g[k].fontSize])

\* the median of the non-zero font sizes of g's spans, the height of a span
\* standing in for a font size of 0; 8 when there is none
MedianFontOr8(g) ==
    LET sizes == NonZero([k \in 1..Len(g) |->
                             IF g[k].fontSize # Zero THEN g[k].fontSize ELSE g[k].height])
    IN  IF Len(sizes) = 0 \/ median(sizes) = Zero THEN R(8) ELSE median(sizes)

\* C9 as stated: a line of the greedy pass whose baseline spread exceeds
\* max(1.5 x tolerance, 0.65 x the line's median font size) is returned as
\* two non-empty lines that partition its spans by baseline; any other
\* line is returned unsplit.
C9_PostSplit ==
    PageDone =>
        \A g \in 1..Len(greedy) :
            IF RGt(SpreadOfLine(greedy[g]),
                   RMax(RMul(yTolerance, Frac(15, 10)),
                        RMul(PlainMedianFont(greedy[g]), Frac(65, 100))))
            THEN SplitInTwo(greedy[g])
            ELSE Unsplit(greedy[g])

\* C9 as amended: the same, where the line's median font size is the
\* median of the non-zero font sizes of its spans (a span's height standing
\* in for a font size of 0), and 8 when no span has one.
C9_PostSplitAmended ==
    PageDone =>
        \A g \in 1..Len(greedy) :
            IF RGt(SpreadOfLine(greedy[g]),
                   RMax(RMul(yTolerance, Frac(15, 10)),
                        RMul(MedianFontOr8(greedy[g]), Frac(65, 100))))
            THEN SplitInTwo(greedy[g])
            ELSE Unsplit(greedy[g])

\* a page where the greedy pass chained four runs into one line that the
\* post-split pass returned as two, next to a line returned unsplit
C9_Witness ==
    /\ pc = "resolved"
    /\ \E g, h \in 1..Len(greedy) :
          /\ Len(greedy[g]) = 4
          /\ SplitInTwo(greedy[g])
          /\ ~Unsplit(greedy[g])
          /\ h # g
          /\ Unsplit(greedy[h])
    /\ Len(lines) = Len(greedy) + 1

\* the text of a block whose spans (in x order) are sps, when a space goes
\* between two adjacent spans exactly where Spaced holds of them: what the
\* spans' texts and the spaces make, runs of whitespace collapsed to one
\* space and the ends trimmed
TextWith(sps, Spaced(_, _)) ==
    Trim(CollapseSpaces(Flatten(
        [k \in 1..Len(sps) |->
            IF k > 1 /\ Spaced(sps[k - 1], sps[k]) THEN <<" ">> \o sps[k].text
            ELSE sps[k].text])))

GapBetween(prev, next) == RSub(next.x, RAdd(prev.x, prev.width))

\* gap > max(1.5, fontSize x 0.2), fontSize that of the span that follows
SpacedByClaim(prev, next) ==
    RGt(GapBetween(prev, next), RMax(Frac(3, 2), RMul(next.fontSize, Frac(1, 5))))

\* the same with 10 for a font size of 0
SpacedAmended(prev, next) ==
    RGt(GapBetween(prev, next),
        RMax(Frac(3, 2),
             RMul(IF next.fontSize = Zero THEN R(10) ELSE next.fontSize, Frac(1, 5))))

\* C10 as stated: the text of every block is its spans' texts in x order,
\* with a single space between two adjacent spans exactly when the gap
\* next.x - (prev.x + prev.width) exceeds max(1.5, fontSize x 0.2).
C10_TextJoin ==
    PageDone =>
        \A c \in 1..Len(lineBlocks) :
            LastResult.chunks[c].text = TextWith(lineBlocks[c].spans, SpacedByClaim)

\* C10 as amended: the same, where fontSize is the font size of the second
\* of the two spans, and 10 when that font size is 0.
C10_TextJoinAmended ==
    PageDone =>
        \A c \in 1..Len(lineBlocks) :
            /\ LastResult.chunks[c].text = TextWith(lineBlocks[c].spans, SpacedAmended)
            /\ \A k \in 1..(Len(lineBlocks[c].spans) - 1) :
                  RLe(lineBlocks[c].spans[k].x, lineBlocks[c].spans[k + 1].x)

\* a page whose block holds "Hello" (x = 0, width 30, size 12), "World"
\* (x = 30, width 30, size 12) and a run that starts with a tab after a gap
\* of 10: the first two are joined directly, the third after one space
C10_Witness ==
    /\ pc = "resolved"
    /\ \E c \in 1..Len(chunks) :
          /\ Len(lineBlocks[c].spans) = 3
          /\ GapBetween(lineBlocks[c].spans[1], lineBlocks[c].spans[2]) = Zero
          /\ GapBetween(lineBlocks[c].spans[2], lineBlocks[c].spans[3]) = R(10)
          /\ chunks[c].text =
                <<"H", "e", "l", "l", "o", "W", "o", "r", "l", "d", " ", "x">>


\* C11: for every line block, bbox contains the extent of each member span:
\* bbox.x <= span.x, bbox.x + bbox.width >= span.x + span.width, and
\* [bbox.y, bbox.y + bbox.height] covers span.y and span.y + span.height.
Contains(bbox, sp) ==
    /\ RLe(bbox.x, sp.x)
    /\ RGe(RAdd(bbox.x, bbox.width), RAdd(sp.x, sp.width))
    /\ RLe(bbox.y, sp.y)
    /\ RGe(RAdd(bbox.y, bbox.height), sp.y)
    /\ RLe(bbox.y, RAdd(sp.y, sp.height))
    /\ RGe(RAdd(bbox.y, bbox.height), RAdd(sp.y, sp.height))

C11_BBoxContains ==
    PageDone =>
        \A b \in 1..Len(lineBlocks) :
            \A k \in 1..Len(lineBlocks[b].spans) :
                Contains(lineBlocks[b].bbox, lineBlocks[b].spans[k])

\* C11 as the code has it: bbox is the envelope of the member spans rounded
\* to two decimals, so it contains each member span up to 0.005 at its left
\* and lower edge and up to 0.01 at its right and upper edge; against the
\* rounded spans of the chunk the left and lower edges are exact.
ContainsWithin(bbox, sp, low, high) ==
    /\ RLe(bbox.x, RAdd(sp.x, low))
    /\ RGe(RAdd(bbox.x, bbox.width), RSub(RAdd(sp.x, sp.width), high))
    /\ RLe(bbox.y, RAdd(sp.y, low))
    /\ RGe(RAdd(bbox.y, bbox.height), RSub(sp.y, high))
    /\ RLe(bbox.y, RAdd(RAdd(sp.y, sp.height), low))
    /\ RGe(RAdd(bbox.y, bbox.height), RSub(RAdd(sp.y, sp.height), high))

C11_BBoxContainsAmended ==
    PageDone =>
        \A b \in 1..Len(lineBlocks) :
            /\ chunks[b].bbox = lineBlocks[b].bbox
            /\ \A k \in 1..Len(lineBlocks[b].spans) :
                  /\ ContainsWithin(lineBlocks[b].bbox, lineBlocks[b].spans[k],
                                    Frac(5, 1000), Frac(1, 100))
                  /\ ContainsWithin(chunks[b].bbox, chunks[b].spans[k],
                                    Zero, Frac(1, 100))

\* a block of two spans whose box falls short of the right edge of its
\* second span, raw and rounded, and a block whose box starts right of its
\* span
C11_Witness ==
    /\ PageDone
    /\ \E b \in 1..Len(lineBlocks) :
          /\ Len(lineBlocks[b].spans) = 2
          /\ RLt(RAdd(lineBlocks[b].bbox.x, lineBlocks[b].bbox.width),
                 RAdd(lineBlocks[b].spans[2].x, lineBlocks[b].spans[2].width))
          /\ RLt(RAdd(chunks[b].bbox.x, chunks[b].bbox.width),
                 RAdd(chunks[b].spans[2].x, chunks[b].spans[2].width))
    /\ \E b \in 1..Len(lineBlocks) :
          RGt(lineBlocks[b].bbox.x, lineBlocks[b].spans[1].x)


\* C12: a failure of getPage or getTextContent on page N rejects the promise
\* of pdfToText with the error of that call, whatever pages 1..N-1 have put
\* into results; a rejected promise carries no PageResult array, a fulfilled
\* one carries results with all numPages pages; after the failure nothing
\* runs any more (no retry) and a settled promise never changes.
PageCalls == {"getPage", "getTextContent"}

C12_Settled ==
    /\ promise.state = "pending" <=> pc \notin {"rejected", "resolved"}
    /\ promise.state = "rejected" =>
          /\ pc = "rejected"
          /\ DOMAIN promise = {"state", "reason"}
          /\ promise.reason.call \in PageCalls =>
                /\ promise.reason.page = pageNum
                /\ Len(results) = pageNum - 1
    /\ promise.state = "fulfilled" =>
          /\ pc = "resolved"
          /\ promise.value = results
          /\ Len(results) = numPages
          /\ \A n \in 1..numPages : results[n].page = n

C12_FailureStep ==
    /\ pc = "getPage" /\ pc' # "getTextContent" =>
          promise' = Rejected("getPage", pageNum) /\ results' = results
    /\ pc = "getTextContent" /\ results' = results =>
          promise' = Rejected("getTextContent", pageNum)
    /\ promise.state # "pending" => UNCHANGED vars

C12_AllOrNothing == []C12_Settled /\ [][C12_FailureStep]_vars

\* the text content of page 3 failed to arrive after pages 1 and 2 were
\* processed, and the promise is rejected with that error
C12_Witness ==
    /\ promise = Rejected("getTextContent", 3)
    /\ Len(results) = 2
    /\ results[1].text = <<"a">>
    /\ numPages = 3


\* C13: a page with zero spans (no items, or only items with empty text)
\* yields a PageResult with empty text, no chunks and stats whose fields
\* maxFont, medianFont, lineCount, columns are zero and whose
\* columnBoundaries is empty; a page with a single span yields exactly one
\* chunk; neither raises an error.
TextItems == SelectSeq(items, LAMBDA it : it.str # <<>>)

WellFormed(res) ==
    /\ DOMAIN res = {"page", "text", "chunks", "stats"}
    /\ DOMAIN res.stats =
          {"maxFont", "medianFont", "lineCount", "columns", "columnBoundaries"}

DegenerateWith(cols, bounds) ==
    PageDone =>
        /\ promise.state # "rejected"
        /\ WellFormed(LastResult)
        /\ Len(TextItems) = 0 =>
              /\ LastResult.text = <<>>
              /\ LastResult.chunks = <<>>
              /\ LastResult.stats =
                    [maxFont |-> Zero, medianFont |-> Zero, lineCount |-> 0,
                     columns |-> cols, columnBoundaries |-> bounds]
        /\ Len(TextItems) = 1 => Len(LastResult.chunks) = 1

C13_Degenerate == DegenerateWith(0, <<>>)

\* C13 as the code has it: on a page with zero spans stats.columns is 1 and
\* columnBoundaries holds the one default column {x: 0, w: 0, lines: 0}.
C13_DegenerateAmended ==
    DegenerateWith(1, <<[x |-> Zero, w |-> Zero, lines |-> 0]>>)

\* a page whose only item has empty text
C13_Witness ==
    /\ PageDone
    /\ Len(items) = 1
    /\ Len(TextItems) = 0
    /\ LastResult.stats.columns = 1
    /\ LastResult.chunks = <<>>


\* C14: in every PageResult the chunks come in the resolved reading order,
\* the block order the page's text is built from: the p-th chunk is the
\* chunk of the p-th block of orderedLineBlocks, also on pages of two or
\* more columns.
ChunkOf(b) == Chunk(lineBlocks[b], MaxFont(lineBlocks), MedFont(lineBlocks))

C14_ChunksInReadingOrder ==
    PageDone =>
        /\ Len(LastResult.chunks) = Len(ordered)
        /\ \A p \in 1..Len(ordered) : LastResult.chunks[p] = ChunkOf(ordered[p])

\* two columns of two blocks each whose heights interleave: the text reads
\* A, B, C, D and the chunks come as A, C, B, D
C14_Witness ==
    /\ PageDone
    /\ Len(columns) = 2
    /\ LastResult.text = <<"A", "NL", "B", "NL", "C", "NL", "D">>
    /\ [c \in 1..Len(LastResult.chunks) |-> LastResult.chunks[c].text]
          = <<<<"A">>, <<"C">>, <<"B">>, <<"D">>>>


\* C15: the PageResult is a function of the page's raw items: every run of
\* the pipeline on the same items, whatever order a sort may choose where
\* ECMAScript leaves it a choice, yields the same text, chunks (in the same
\* order) and stats as the run that was made, also when spans, lines or
\* blocks tie on baseline, y or x.
ResultOf(lbs, cols, ord) ==
    [text |-> PageText(lbs, ord, maxCharsPerPage),
     chunks |-> BuildChunks(lbs),
     stats |-> PageStats(lbs, cols)]

OutcomesOfColumns(lbs, cols) ==
    {ResultOf(lbs, cols, ord) : ord \in OrderedOutcomes(lbs, cols)}

OutcomesOfBlocks(lbs, pw) == OutcomesOfColumns(lbs, detectColumns(lbs, pw))

OutcomesOfSpans(sps, tol) ==
    UNION {OutcomesOfBlocks(BuildLineBlocks(lns), estimatePageWidth(sps)) :
              lns \in groupSpansIntoLines(sps, tol)}

\* the results the pipeline can give for a page holding the items its
PageOutcomes(its) ==
    UNION {OutcomesOfSpans(sps, dynamicYTolerance(sps)) : sps \in SortedSpanOutcomes(its)}

AllSpace(str) == \A k \in 1..Len(str) : IsSpace(str[k])

InkItems == SelectSeq(items, LAMBDA it : ~AllSpace(it.str))

BlankIds == {i \in 1..Len(items) : AllSpace(items[i].str)}

\* the span ids with the blank items left out of the numbering
InkId(id) == Cardinality({i \in 1..id : i \notin BlankIds})

Renumbered(chs) ==
    [c \in 1..Len(chs) |->
        [chs[c] EXCEPT !.spans =
            [k \in 1..Len(chs[c].spans) |->
                [chs[c].spans[k] EXCEPT !.id = InkId(chs[c].spans[k].id)]]]]

C16_BlankDropped ==
    PageDone =>
        /\ \A i \in BlankIds :
              /\ \A k \in 1..Len(spans) : spans[k].id # i
              /\ \A l \in 1..Len(lines) : \A k \in 1..Len(lines[l]) : lines[l][k].id # i
              /\ SlotsOf(LastResult.chunks, i) = {}
        /\ yTolerance = dynamicYTolerance(NormalizedSpans(InkItems))
        /\ pageWidth = estimatePageWidth(NormalizedSpans(InkItems))
        /\ PageOutcomes(InkItems) =
              {[text |-> LastResult.text,
                chunks |-> Renumbered(LastResult.chunks),
                stats |-> LastResult.stats]}

\* the page of the run "a" and the space of font size 40: the space is a
\* span, a line and a chunk with empty text, and the statistics count it
C16_Witness ==
    /\ PageDone
    /\ [i \in 1..Len(items) |-> items[i].str] = <<<<"a">>, <<" ">>>>
    /\ Len(spans) = 2
    /\ LastResult.text = <<"a">>
    /\ [c \in 1..2 |-> LastResult.chunks[c].text] = <<<<>>, <<"a">>>>
    /\ LastResult.stats.maxFont = R(40)
    /\ LastResult.stats.medianFont = R(25)
    /\ LastResult.stats.lineCount = 2
    /\ pageWidth = R(510)


\* C17: for every page and every maxCharsPerPage the returned text has at
\* most max(0, maxCharsPerPage) characters and is a prefix of the
\* whitespace-normalized, newline-separated concatenation of the block
\* texts in reading order (the non-empty block texts, each already
\* collapsed and trimmed, joined by single newlines).
IsPrefix(t, u) == Len(t) <= Len(u) /\ SubSeq(u, 1, Len(t)) = t

NormalizedJoin == JoinNL(SelectSeq(OrderedTexts, LAMBDA t : t # <<>>))

C17_TextBudget ==
    PageDone =>
        /\ Len(LastResult.text) <= (IF maxCharsPerPage > 0 THEN maxCharsPerPage ELSE 0)
        /\ IsPrefix(LastResult.text, NormalizedJoin)

\* a page of three lines and a whitespace-only block whose text of 6
\* characters is cut to the budget of 4, ending in a newline
C17_Witness ==
    /\ PageDone
    /\ maxCharsPerPage = 4
    /\ Len(lineBlocks) = 4
    /\ \E b \in 1..Len(lineBlocks) : lineBlocks[b].text = <<>>
    /\ NormalizedJoin = <<"c", " ", "x", "NL", "b", "NL", "a">>
    /\ LastResult.text = <<"c", " ", "x", "NL">>


\* C18: for every registered theme selected, every slide generatePptxFromOutline
\* creates (the title slide and each content slide) is created with options
\* whose bkgd and background both equal the theme's colors.background, and a
\* one-slide outline gives at least 2 slides.
Built == deck.pc \in {"writeFile", "writeBlob", "done"}

SelectedTheme == getTheme(EnforcedThemeName(deck.outline, deck.options))

C18_BackgroundOnEverySlide ==
    Built /\ deck.options.themeName \in listThemes =>
        /\ \A k \in 1..Len(deck.slides) :
              /\ {"bkgd", "background"} \subseteq DOMAIN deck.slides[k].opts
              /\ deck.slides[k].opts.bkgd = THEMES[deck.options.themeName].background
              /\ deck.slides[k].opts.background = THEMES[deck.options.themeName].background
        /\ Len(deck.outline.slides) = 1 => Len(deck.slides) >= 2

\* the emerald deck of one slide: two slides whose options hold bkgd only
C18_Witness ==
    /\ deck.pc = "done"
    /\ deck.options.themeName = "emerald"
    /\ Len(deck.outline.slides) = 1
    /\ Len(deck.slides) = 2
    /\ \A k \in 1..2 : deck.slides[k].opts = [bkgd |-> "F0FDF4"]


\* C19: when generatePptxFromOutline is called with options.autoAccent
\* false, deriveThemeWithAutoAccent is never invoked and the accent lines
\* the templates draw have the selected theme's colors.accent, also when
\* the outline's slides reference page images that are available.
C19_AccentLocked ==
    deck.pc # "idle" /\ deck.options.autoAccent = "false" =>
        /\ deck.derived = 0
        /\ \A k \in 2..Len(deck.slides) :
              deck.slides[k].accentLine = accentColor(SelectedTheme)

\* an emerald deck with autoAccent false whose slide shows the black image
\* of page 1: the accent line is black
C19_Witness ==
    /\ deck.pc = "done"
    /\ deck.options = [themeName |-> "emerald", autoAccent |-> "false"]
    /\ deck.outline.slides = <<[imagePages |-> <<1>>]>>
    /\ deck.derived = 1
    /\ deck.slides[2].template = "IMAGE_RIGHT"
    /\ deck.slides[2].accentLine = "000000"
    /\ accentColor(SelectedTheme) = "10B981"


\* C20: each span, taken in the pre-sorted order, is added to the first
\* existing line (in creation order) whose mean baseline is within the
\* tolerance of the span's baseline and whose median font size is within a
\* ratio of 1.6 of the span's font size; if no line qualifies, the span
\* starts a new line.
LinesBefore(k) == GreedyLines(SubSeq(spans, 1, k - 1), yTolerance)

Qualifying(lns, sp) ==
    {i \in 1..Len(lns) :
        ~FontRatioTooLarge(lns[i], sp) /\ RLe(LineDelta(lns[i], sp), yTolerance)}

\* the line that holds span k once it is placed
LineHolding(k) ==
    CHOOSE i \in 1..Len(LinesBefore(k + 1)) :
        \E m \in 1..Len(LinesBefore(k + 1)[i]) : LinesBefore(k + 1)[i][m] = spans[k]

PlacedAt(before, sp, i) ==
    IF i > Len(before) THEN Append(before, <<sp>>)
    ELSE [before EXCEPT ![i] = Append(@, sp)]

\* span k went to line i of the lines before it, where Pick(i, Q) says
\* which of the qualifying lines Q line i is, or to a new line if Q is empty
PlacedBy(k, Pick(_, _)) ==
    /\ LinesBefore(k + 1) = PlacedAt(LinesBefore(k), spans[k], LineHolding(k))
    /\ IF Qualifying(LinesBefore(k), spans[k]) = {}
       THEN LineHolding(k) = Len(LinesBefore(k)) + 1
       ELSE /\ LineHolding(k) \in Qualifying(LinesBefore(k), spans[k])
            /\ Pick(k, LineHolding(k))

IsFirst(k, i) == \A j \in Qualifying(LinesBefore(k), spans[k]) : i <= j

IsNearest(k, i) ==
    \A j \in Qualifying(LinesBefore(k), spans[k]) :
        \/ RLt(LineDelta(LinesBefore(k)[i], spans[k]), LineDelta(LinesBefore(k)[j], spans[k]))
        \/ /\ LineDelta(LinesBefore(k)[i], spans[k]) = LineDelta(LinesBefore(k)[j], spans[k])
           /\ i <= j

C20_GreedyFirst ==
    PageDone =>
        /\ greedy = LinesBefore(Len(spans) + 1)
        /\ \A k \in 1..Len(spans) : PlacedBy(k, IsFirst)

\* C20 as the code has it: the span is added to the qualifying line whose
\* mean baseline is nearest to the span's baseline, the first of them in
\* creation order when several are equally near.
C20_GreedyNearest ==
    PageDone =>
        /\ greedy = LinesBefore(Len(spans) + 1)
        /\ \A k \in 1..Len(spans) : PlacedBy(k, IsNearest)

\* runs a, b, c, d: c (baseline 101) is within the tolerance 2.8 of line
\* [a] (103) and of line [b] (100) and joins [b], the nearer and the later
\* of the two; d (101.5) then joins [b, c] (mean 100.5) as well
C20_Witness ==
    /\ PageDone
    /\ [k \in 1..Len(spans) |-> spans[k].text] = <<<<"a">>, <<"b">>, <<"c">>, <<"d">>>>
    /\ Cardinality(Qualifying(LinesBefore(3), spans[3])) = 2
    /\ LineHolding(3) = 2
    /\ Len(greedy) = 2


\* C21: the lines returned by the line grouper are sorted by mean baseline
\* in descending order, and among lines of equal mean baseline by their
\* leftmost span x in ascending order, for every input span set, after the
\* post-split pass.
MeanOf(line) == RDiv(RSum(LineBaselines(line)), R(Len(line)))

LeftmostX(line) ==
    CHOOSE x \in {line[k].x : k \in 1..Len(line)} :
        \A k \in 1..Len(line) : RLe(x, line[k].x)

InLineOrder(lns) ==
    \A i, j \in 1..Len(lns) :
        i < j =>
            \/ RGt(MeanOf(lns[i]), MeanOf(lns[j]))
            \/ /\ MeanOf(lns[i]) = MeanOf(lns[j])
               /\ RLe(LeftmostX(lns[i]), LeftmostX(lns[j]))

C21_LineOrder == PageDone => InLineOrder(lines)

\* C21 as the code has it: the comparator takes two mean baselines that
\* differ by at most 0.001 for equal, so the order is the claimed one on
\* every page where no two lines have mean baselines that differ by
\* more than 0 and at most 0.001.
NearlyLevel(lns) ==
    \E i, j \in 1..Len(lns) :
        /\ MeanOf(lns[i]) # MeanOf(lns[j])
        /\ RLe(RAbs(RSub(MeanOf(lns[i]), MeanOf(lns[j]))), Frac(1, 1000))

C21_LineOrderAmended == (PageDone /\ ~NearlyLevel(lines)) => InLineOrder(lines)

\* runs a, B, c, A, E: the greedy pass creates [a, c] (mean 101.65) before
\* [B] (102) and [A] (x 50) before [E] (x 20, the same baseline 60), and
\* the sort moves [B] and [E] up
C21_Witness ==
    /\ PageDone
    /\ ~NearlyLevel(lines)
    /\ Len(lines) = 4
    /\ lines # PostSplit(greedy, yTolerance)
    /\ MeanOf(lines[3]) = MeanOf(lines[4])
    /\ RLt(LeftmostX(lines[3]), LeftmostX(lines[4]))
    /\ RGt(MeanOf(lines[1]), MeanOf(lines[2]))


\* C22: with the blocks sorted by horizontal midpoint, two consecutive
\* blocks fall into different clusters exactly when the gap between their
\* midpoints exceeds max(12, min(0.12 x pageWidth, 0.8 x medianBlockWidth)),
\* for every page width and block-width distribution, including a page
\* width or a median block width of 0.
MidOf(b) ==
    RAdd(lineBlocks[b].bbox.x, RDiv(lineBlocks[b].bbox.width, R(2)))

WidthsOf(lbs) == [b \in 1..Len(lbs) |-> lbs[b].bbox.width]

\* the blocks in the order of the clusters, and the cluster of each position
Clustered == Flatten(clusters)

ClusterAt(k) ==
    CHOOSE c \in 1..Len(clusters) :
        /\ k > Len(Flatten(SubSeq(clusters, 1, c - 1)))
        /\ k <= Len(Flatten(SubSeq(clusters, 1, c)))

ClusteredBy(threshold) ==
    /\ {Clustered[k] : k \in 1..Len(Clustered)} = 1..Len(lineBlocks)
    /\ Len(Clustered) = Len(lineBlocks)
    /\ \A k \in 2..Len(Clustered) :
          /\ RLe(MidOf(Clustered[k - 1]), MidOf(Clustered[k]))
          /\ ClusterAt(k) # ClusterAt(k - 1) <=>
                RGt(RSub(MidOf(Clustered[k]), MidOf(Clustered[k - 1])), threshold)

ThresholdByClaim ==
    RMax(R(12), RMin(RMul(Frac(12, 100), pageWidth),
                     RMul(Frac(8, 10), median(WidthsOf(lineBlocks)))))

C22_Clustering ==
    (PageDone /\ Len(lineBlocks) > 1) => ClusteredBy(ThresholdByClaim)

\* C22 as the code has it: the median is that of the non-zero block widths,
\* and a page width of 0, or no block of non-zero width, leaves that term
\* out of the minimum (9999 stands in for it).
TermOr9999(v) == IF v = Zero THEN R(9999) ELSE v

ThresholdAmended ==
    RMax(R(12),
         RMin(TermOr9999(RMul(Frac(12, 100), pageWidth)),
              TermOr9999(RMul(Frac(8, 10),
                              median(SelectSeq(WidthsOf(lineBlocks),
                                               LAMBDA w : w # Zero))))))

C22_ClusteringAmended ==
    (PageDone /\ Len(lineBlocks) > 1) => ClusteredBy(ThresholdAmended)

\* runs z, y, x of width 0 at 0, 20 and 200 (page width 200): the
\* threshold is 24, z and y share a cluster and x has its own
C22_Witness ==
    /\ PageDone
    /\ Len(lineBlocks) = 3
    /\ pageWidth = R(200)
    /\ \A b \in 1..3 : lineBlocks[b].bbox.width = Zero
    /\ ThresholdAmended = R(24)
    /\ Len(clusters) = 2
    /\ Len(clusters[1]) = 2


\* C23: for every non-empty span set the vertical tolerance is 0.28 x the
\* median span height clamped to [1.2, 4.5], plus 0.8 only when the page's
\* baseline spread exceeds 4 x that median; hence the tolerance lies in
\* [1.2, 5.3] and is never zero or negative, whatever the span heights.
Clamped(v) ==
    IF RLt(v, Frac(12, 10)) THEN Frac(12, 10)
    ELSE IF RGt(v, Frac(45, 10)) THEN Frac(45, 10) ELSE v

BaselineSpread ==
    CHOOSE d \in {RSub(spans[i].baselineY, spans[j].baselineY) : i, j \in 1..Len(spans)} :
        \A i, j \in 1..Len(spans) : RLe(RSub(spans[i].baselineY, spans[j].baselineY), d)

ToleranceWith(med) ==
    IF RGt(BaselineSpread, RMul(R(4), med))
    THEN RAdd(Clamped(RMul(Frac(28, 100), med)), Frac(8, 10))
    ELSE Clamped(RMul(Frac(28, 100), med))

ToleranceInBounds ==
    /\ RGe(yTolerance, Frac(12, 10))
    /\ RLe(yTolerance, Frac(53, 10))
    /\ RGt(yTolerance, Zero)

MedianHeight == median([k \in 1..Len(spans) |-> spans[k].height])

C23_Tolerance ==
    (PageDone /\ Len(spans) > 0) =>
        /\ yTolerance = ToleranceWith(MedianHeight)
        /\ ToleranceInBounds

\* C23 as the code has it: the median is taken over the spans' absolute
\* heights, a span of height 0 counting with its font size and a span with
\* neither being left out, and is 8 when that median is 0.
MeasureOf(sp) == RAbs(IF sp.height # Zero THEN sp.height ELSE sp.fontSize)

Measures == SelectSeq([k \in 1..Len(spans) |-> MeasureOf(spans[k])], LAMBDA v : v # Zero)

MedianMeasure == IF median(Measures) = Zero THEN R(8) ELSE median(Measures)

C23_ToleranceAmended ==
    (PageDone /\ Len(spans) > 0) =>
        /\ yTolerance = ToleranceWith(MedianMeasure)
        /\ ToleranceInBounds

\* runs a (height 0, font size 20) and g (no size, 100 below): the median
\* measure is 20, the spread 120 exceeds 80, and the tolerance is 5.3
C23_Witness ==
    /\ PageDone
    /\ Len(spans) = 2
    /\ \A k \in 1..2 : spans[k].height = Zero
    /\ MedianHeight = Zero
    /\ MedianMeasure = R(20)
    /\ BaselineSpread = R(120)
    /\ yTolerance = Frac(53, 10)


\* C24: pdfToText starts fetching page k+1 only after page k's page object
\* and text content have been retrieved and its result appended; on success
\* the result has exactly numPages entries, entry i (from 0) has page number
\* i+1, and every entry has chunks and stats present.
C24_InOrder ==
    /\ pc \in PageCalls =>
          /\ Len(results) = pageNum - 1
          /\ pageNum <= numPages
    /\ promise.state = "fulfilled" =>
          /\ Len(promise.value) = numPages
          /\ \A n \in 1..numPages :
                /\ promise.value[n].page = n
                /\ {"chunks", "stats"} \subseteq DOMAIN promise.value[n]
                /\ DOMAIN promise.value[n].chunks = 1..Len(promise.value[n].chunks)
                /\ promise.value[n].stats.lineCount = Len(promise.value[n].chunks)
                /\ promise.value[n].stats.columns = Len(promise.value[n].stats.columnBoundaries)

\* the step that moves on from page k is the one that received page k's
\* text content, and it appends page k's result
C24_NextPageStep ==
    (pageNum >= 1 /\ pageNum' # pageNum) =>
        /\ pc = "getTextContent"
        /\ pageNum' = pageNum + 1
        /\ Len(results') = pageNum
        /\ SubSeq(results', 1, pageNum - 1) = results
        /\ results'[pageNum].page = pageNum
        /\ pc' = "getPage" <=> pageNum < numPages

C24_PageSequencing == []C24_InOrder /\ [][C24_NextPageStep]_vars

\* three pages were processed one after the other, the second without text
C24_Witness ==
    /\ promise.state = "fulfilled"
    /\ numPages = 3
    /\ promise.value[1].chunks # <<>>
    /\ promise.value[2].chunks = <<>>
    /\ promise.value[2].stats.lineCount = 0
    /\ promise.value[3].page = 3


\* C25: for any parsed reply (including {}, non-array slides and empty
\* slides) and any pages list, normalizeOutline returns an outline with a
\* non-empty theme and between 1 and 25 slides, each with a non-empty title
\* of at most 120 characters, at most 8 bullets of at most 180 characters
\* each, and imagePages that are distinct positive integers.
ViableSlide(slide) ==
    /\ slide.title # <<>>
    /\ Len(slide.title) <= 120
    /\ "bullets" \in DOMAIN slide =>
          /\ Len(slide.bullets) <= 8
          /\ \A k \in 1..Len(slide.bullets) : Len(slide.bullets[k]) <= 180
    /\ "imagePages" \in DOMAIN slide =>
          /\ \A k \in 1..Len(slide.imagePages) :
                /\ slide.imagePages[k].t = "number"
                /\ slide.imagePages[k].n[2] = 1
                /\ slide.imagePages[k].n[1] > 0
          /\ \A j, k \in 1..Len(slide.imagePages) :
                j # k => slide.imagePages[j] # slide.imagePages[k]

C25_ViableOutline ==
    norm.pc = "returned" =>
        /\ norm.outline.theme.t = "string"
        /\ norm.outline.theme.s # <<>>
        /\ Len(norm.outline.slides) >= 1
        /\ Len(norm.outline.slides) <= 25
        /\ \A k \in 1..Len(norm.outline.slides) : ViableSlide(norm.outline.slides[k])

\* the reply with the rich slide: its title is cut to 120 characters, its
\* eleven bullets to eight, the long bullet to 180 characters, and of its
\* twelve imagePages five remain
C25_Witness ==
    /\ norm.pc = "returned"
    /\ norm.parsed = Replies[7]
    /\ Len(norm.outline.slides) = 5
    /\ Len(norm.outline.slides[1].title) = 120
    /\ Len(norm.outline.slides[1].bullets) = 8
    /\ Len(norm.outline.slides[1].bullets[3]) = 180
    /\ Len(norm.outline.slides[1].imagePages) = 5
    /\ norm.outline.slides[2].title = <<"S", "l", "i", "d", "e", " ", "2">>


\* ---- C27: template names of the alias map survive normalisation ----

\* the values of normalizeTemplateName's alias map
AliasValues == {e[2] : e \in TemplateAliases}

\* the slides of the reply that normalizeOutline normalises, in order
HintedSlides ==
    Slice(ElementsOf(Get(norm.parsed, "slides")), MAX_SLIDES)

\* slide k of the reply carries the template hint name, as a string
HintIs(k, name) == Get(HintedSlides[k], "template") = Str(name)

\* C27: every template name that is a value of normalizeTemplateName's alias
\* map is returned unchanged, so a slide of the reply whose template hint is
\* such a name ("flowchart" among them) has that template in the normalised
\* outline
C27_AliasValuesKept ==
    norm.pc = "returned" =>
        \A k \in 1..Len(HintedSlides) : \A name \in AliasValues :
            HintIs(k, name) => norm.outline.slides[k].template = name

\* the reply with one slide per alias name: the slide hinted "flowchart"
\* comes back as "title-bullets", the one hinted "comparison" as "comparison"
C27_Witness ==
    /\ norm.pc = "returned"
    /\ norm.parsed = Replies[9]
    /\ HintIs(14, <<"f", "l", "o", "w", "c", "h", "a", "r", "t">>)
    /\ norm.outline.slides[14].template = <<"t", "i", "t", "l", "e", "-",
            "b", "u", "l", "l", "e", "t", "s">>
    /\ HintIs(16, <<"c", "o", "m", "p", "a", "r", "i", "s", "o", "n">>)
    /\ norm.outline.slides[16].template = <<"c", "o", "m", "p", "a", "r",
            "i", "s", "o", "n">>


\* ---- C26: the retry protocol of callOpenAI ----

\* the call sent a retry, and the retry's fetch resolved with response r
RetryAnswered(r) ==
    /\ http.pc = "settled"
    /\ Len(http.responses) = 2
    /\ http.responses[2] = r

C26_AtMostTwo == Len(http.requests) <= 2

C26_RetryOnlyWhen ==
    Len(http.requests) = 2 =>
        /\ http.forceJson
        /\ http.responses[1].status = 400
        /\ looksLikeResponseFormatIssue(http.responses[1].body)

C26_RetryPayload ==
    Len(http.requests) = 2 =>
        /\ http.requests[2].body = WithoutResponseFormat(http.payload)
        /\ "response_format" \notin DOMAIN http.requests[2].body
        /\ \A k \in DOMAIN http.payload \ {"response_format"} :
              http.requests[2].body[k] = http.requests[1].body[k]
        /\ http.requests[2].url = http.requests[1].url

C26_RetrySuccess ==
    \A r \in Responses :
        RetryAnswered(r) /\ Ok(r) /\ r.readable /\ r.body \in JsonBodies
            => http.outcome = Returns([json |-> r.body])

C26_RetryFailure ==
    \A r \in Responses :
        RetryAnswered(r) /\ ~Ok(r) /\ r.readable
            => http.outcome = Throws("Error", RetryErrorMessage(r.status,
                    r.body))

\* C26: callOpenAI sends at most two requests; the second only when forceJson
\* is set and the first response has status 400 and a body that indicates a
\* response_format problem; the second request carries the same payload
\* without response_format; a successful retry returns its JSON, and a failed
\* retry throws "OpenAI error (retry): <status> <body>"
C26_RetryProtocol ==
    /\ C26_AtMostTwo
    /\ C26_RetryOnlyWhen
    /\ C26_RetryPayload
    /\ C26_RetrySuccess
    /\ C26_RetryFailure

\* the retry is answered with status 500 and "Unsupported model": the call
\* throws "OpenAI error: 400 ", the first response's status and no body
C26_Witness ==
    /\ http.pc = "settled"
    /\ Len(http.requests) = 2
    /\ Len(http.responses) = 2
    /\ http.responses[2].status = 500
    /\ http.responses[2].readable
    /\ http.responses[2].body = <<"U", "n", "s", "u", "p", "p", "o", "r",
            "t", "e", "d", " ", "m", "o", "d", "e", "l">>
    /\ http.outcome = Throws("Error", <<"O", "p", "e", "n", "A", "I", " ",
            "e", "r", "r", "o", "r", ":", " ", "4", "0", "0", " ">>)


\* ---- C28: analysis and PPT build do not overlap ----

AnalysisInFlight == app.runs # <<>>
BuildInFlight == app.build.path # "none"

\* C28: under any sequence of user events and asynchronous completions an
\* analysis run and a PPT build are never in flight together, and while an
\* analysis run is in flight analyzing is true
C28_NoCrossTrigger ==
    /\ ~(AnalysisInFlight /\ BuildInFlight)
    /\ AnalysisInFlight => app.analyzing

\* a PDF is chosen while an analysis is in flight: analyzing is false again,
\* the run goes on and fills analysis, and a build was started next to it
C28_Witness ==
    /\ AnalysisInFlight
    /\ BuildInFlight
    /\ ~app.analyzing
    /\ app.pptBuilding
    /\ app.runs[1].stage = "plan"

\* ---- C29: strict styles force auto accent off ----

\* C29: once the effects have settled, strictStyles implies ~autoAccent, and
\* a generation started while strictStyles is on is called with autoAccent
\* false
C29_StrictLocksAccent ==
    /\ EffectsSettled /\ app.strictStyles => ~app.autoAccent
    /\ BuildInFlight /\ app.build.called /\ app.build.strictStyles
          => ~app.build.autoAccent

\* Strict Styles was switched on in the UI while auto accent was on (the stored
\* item still records the lock), and a generation was called with autoAccent
\* false
C29_Witness ==
    /\ EffectsSettled
    /\ app.strictStyles /\ ~app.autoAccent
    /\ ~Denied(app.storage)
    /\ app.storage.strictStyles = Str(<<"1">>)
    /\ app.storage.autoAccent = Str(<<"0">>)
    /\ BuildInFlight /\ app.build.called /\ app.build.path = "refined"
    /\ app.build.strictStyles /\ ~app.build.autoAccent

\* ---- C30: the chat history is append-only ----

Messages(history) == {history[k] : k \in 1..Len(history)}

\* C30: every message of chatHistory is still in chatHistory after any step,
\* also when a chat reply arrives after an analysis or a build has appended
\* messages
C30_AppendOnly ==
    [][Messages(app.chatHistory) \subseteq Messages(app.chatHistory')]_vars

\* a reply arrived after the build from the refined outline succeeded and
\* appended its confirmation: the history has the reply and the outline draft,
\* and the confirmation is gone
C30_Witness ==
    /\ ~app.send.pending
    /\ app.outline = "refined"
    /\ ~BuildInFlight /\ app.pptReady
    /\ Reply \in Messages(app.chatHistory)
    /\ OutlineText \in Messages(app.chatHistory)
    /\ ThanksNote \notin Messages(app.chatHistory)

=============================================================================
